---- MODULE Spec2Model ----
(***************************************************************************)
(* A model of the paged binary index/decoder engine of rs-core's attlib    *)
(* scripts: the base-27 name codec, the index-segment parsers, the         *)
(* start-page discovery and the bounded metadata cache.                    *)
(*                                                                         *)
(* 32-bit words and Python's unbounded integers are kept exact.  A number  *)
(* is held as a pair <<hi, lo>> standing for hi * 65536 + lo with          *)
(* 0 <= lo < 65536 (hi is negative for a negative number), so that         *)
(* 0xFFFFFFFF, the wrap of "& 0xFFFFFFFF" and the saturation of db1_hash   *)
(* are computed and not assumed.                                           *)
(***************************************************************************)
EXTENDS Integers, Sequences, FiniteSets, TLC

VARIABLES
    pc,              \* which operation has run ("input" before any)
    name,            \* codec: the name given to db1_hash
    name2,           \* codec: a second name (injectivity)
    hash_val,        \* codec: the word given to the decoders
    enc,             \* codec: db1_hash(name)
    enc2,            \* codec: db1_hash(name2)
    dec,             \* codec: the decoders' results
    pages,           \* index: the data region, a sequence of pages of words
    pointer_table,   \* the words the file holds at 0x0800, at most 8
    segment_pointers,\* index: AttlibDataSource.segment_pointers
    result,          \* index: what the parse or the discovery returned
    max_entries,     \* AttlibCache.max_entries
    cache,           \* AttlibCache.cache (attr_id -> metadata)
    access_order,    \* AttlibCache.access_order
    attr_definitions,    \* AttlibDataSource.attr_definitions
    hash_to_combined_id, \* AttlibDataSource.hash_to_combined_id
    noun_attr_bindings,  \* AttlibDataSource.noun_attr_bindings
    page_cache,          \* AttlibDataSource.page_cache
    history          \* what earlier calls did (not program state)

vars == <<pc, name, name2, hash_val, enc, enc2, dec, pages, pointer_table,
          segment_pointers,
          result, max_entries, cache, access_order, attr_definitions,
          hash_to_combined_id, noun_attr_bindings, page_cache, history>>

sourceVars == <<attr_definitions, hash_to_combined_id, noun_attr_bindings,
                page_cache, history>>

codecVars == <<name, name2, hash_val, enc, enc2, dec>>
indexVars == <<pages, pointer_table, segment_pointers, result>>
cacheVars == <<max_entries, cache, access_order>>

None == "none"

----------------------------------------------------------------------------
(* Exact integers: <<hi, lo>> is hi * 65536 + lo.                          *)

Limb == 2^16

\* The pair of a TLC integer n.
W(n) == <<n \div Limb, n % Limb>>

\* hi * 65536 + lo for any lo, brought back to 0 <= lo < 65536.
WNorm(hi, lo) == <<hi + (lo \div Limb), lo % Limb>>

\* a + n, for a pair a and a TLC integer n.
WAdd(a, n) == WNorm(a[1], a[2] + n)

\* a * m + d, for a pair a and small TLC integers m, d.
WMulAdd(a, m, d) == WNorm(a[1] * m, a[2] * m + d)

WLt(a, b) == a[1] < b[1] \/ (a[1] = b[1] /\ a[2] < b[2])
WLe(a, b) == a = b \/ WLt(a, b)
WGt(a, b) == WLt(b, a)

\* a // n and a % n (Python's floor division) for a pair a >= 0 and a
\* small TLC integer n > 0.
WDiv(a, n) == <<a[1] \div n, ((a[1] % n) * Limb + a[2]) \div n>>
WMod(a, n) == ((a[1] % n) * Limb + a[2]) % n

\* a & 0xFFFFFFFF: the low 32 bits, also of a negative number.
WMask32(a) == <<a[1] % Limb, a[2]>>

----------------------------------------------------------------------------
(* Program constants.                                                       *)

MIN_HASH == 531442
MAX_HASH == 387951929
BASE27_OFFSET == 531441
HASH_UDA_THRESHOLD == 387951929
PAGE_SWITCH == <<0, 0>>
SEGMENT_END == <<65535, 65535>>

----------------------------------------------------------------------------
(* HashCodec.  A name is the sequence of its bytes (" " is 32, "A".."Z"    *)
(* are 65..90); a decoded string is the sequence of its code points.       *)

\* int(w) of a pair small enough for a TLC integer.
WInt(a) == a[1] * Limb + a[2]

RECURSIVE db1_val(_, _, _)
\* The loop of db1_hash: i runs from len(chars) - 1 down to 0 (here from
\* Len(chars) down to 1), val = (val * 27) + (chars[i] - 64).
db1_val(chars, i, val) ==
    IF i < 1 THEN val
    ELSE db1_val(chars, i - 1, WMulAdd(val, 27, chars[i] - 64))

\* db1_hash as the code maps every byte: chars[i] - 64.
db1_hash(hash_str) ==
    IF Len(hash_str) < 1 THEN W(0)
    ELSE LET val    == db1_val(hash_str, Len(hash_str), W(0))
             res == WAdd(val, BASE27_OFFSET)
         IN  WMask32(IF WGt(res, <<65535, 65535>>)
                     THEN <<65535, 65535>> ELSE res)

RECURSIVE base27_chars(_, _)
\* while k > 0: c = k % 27; chars.append(zero if c == 0 else chr(c + 64));
\* k //= 27.  The digits come out least-significant first.
base27_chars(k, zero) ==
    IF ~WGt(k, W(0)) THEN <<>>
    ELSE LET c == WMod(k, 27)
         IN  <<IF c = 0 THEN zero ELSE c + 64>> \o base27_chars(WDiv(k, 27), zero)

RECURSIVE str_int(_)
\* str(n) of n >= 0: its decimal digits as code points.
str_int(n) ==
    IF n < 10 THEN <<48 + n>> ELSE str_int(n \div 10) \o <<48 + (n % 10)>>

\* decode_base27 of parse_atgtix2.py (and the other docs scripts).
decode_base27(h) ==
    IF WLt(h, W(MIN_HASH)) \/ WGt(h, W(MAX_HASH)) THEN <<>>
    ELSE base27_chars(WAdd(h, -BASE27_OFFSET), 32)

\* decode_base27 of generate_attr_info.py: "unk_<n>" below 531442, no
\* upper limit.
decode_base27_attr_info(h) ==
    IF WLt(h, W(MIN_HASH)) THEN <<117, 110, 107, 95>> \o str_int(WInt(h))
    ELSE base27_chars(WAdd(h, -BASE27_OFFSET), 32)

\* decode_db1_hash of attlib_debug.py: chr(64 + c) for every digit.
decode_db1_hash(h) ==
    IF WGt(h, W(HASH_UDA_THRESHOLD)) THEN <<>>
    ELSE IF WLe(h, W(BASE27_OFFSET)) THEN <<>>
    ELSE base27_chars(WAdd(h, -BASE27_OFFSET), 64)

\* Bounds of the codec's inputs.
MaxNameLen == 3
Chars == {32, 65, 67, 86, 90}              \* " ", "A", "C", "V", "Z"
Names == UNION {[1..k -> Chars] : k \in 0..MaxNameLen}
HashInputs ==
    {W(0), W(1), W(27), W(BASE27_OFFSET), W(MIN_HASH - 1), W(MIN_HASH),
     W(MIN_HASH + 26), W(MIN_HASH + 27), W(MAX_HASH - 1), W(MAX_HASH), W(MAX_HASH + 1),
     W(MAX_HASH + 27), <<32768, 0>>, <<65535, 65534>>, SEGMENT_END}

OutOfHashRange(h) == WLt(h, W(MIN_HASH)) \/ WGt(h, W(MAX_HASH))

IndexIdle ==
    /\ pages = <<>> /\ pointer_table = <<>> /\ segment_pointers = <<>>
    /\ result = None
CacheIdle == max_entries = 0 /\ cache = <<>> /\ access_order = <<>>
SourceIdle ==
    /\ attr_definitions = <<>> /\ hash_to_combined_id = <<>>
    /\ noun_attr_bindings = <<>> /\ page_cache = <<>> /\ history = <<>>

InitCodec ==
    /\ pc = "input"
    /\ enc = None /\ enc2 = None /\ dec = None
    /\ \/ name \in Names /\ name2 \in Names /\ hash_val = W(0)
       \/ name = <<>> /\ name2 = <<>> /\ hash_val \in HashInputs
    /\ IndexIdle /\ CacheIdle /\ SourceIdle

\* encode: db1_hash of both names.
Encode ==
    /\ pc = "input"
    /\ enc' = db1_hash(name)
    /\ enc2' = db1_hash(name2)
    /\ pc' = "encoded"
    /\ UNCHANGED <<name, name2, hash_val, dec, indexVars, cacheVars, sourceVars>>

\* decode(encode(name)): decode_base27 of the hash just computed.
RoundTrip ==
    /\ pc = "encoded"
    /\ dec' = decode_base27(enc)
    /\ pc' = "roundtrip"
    /\ UNCHANGED <<name, name2, hash_val, enc, enc2, indexVars, cacheVars, sourceVars>>

\* Each decoder of the repository on the same word.
Decode ==
    /\ pc = "input"
    /\ dec' = [parse_atgtix2      |-> decode_base27(hash_val),
               generate_attr_info |-> decode_base27_attr_info(hash_val),
               attlib_debug       |-> decode_db1_hash(hash_val)]
    /\ pc' = "decoded"
    /\ UNCHANGED <<name, name2, hash_val, enc, enc2, indexVars, cacheVars, sourceVars>>

\* encode(decode(h)): db1_hash of the name decode_base27 gave.
Reencode ==
    /\ pc = "decoded"
    /\ enc' = db1_hash(dec.parse_atgtix2)
    /\ pc' = "reencoded"
    /\ UNCHANGED <<name, name2, hash_val, enc2, dec, indexVars, cacheVars, sourceVars>>

NextCodec == Encode \/ RoundTrip \/ Decode \/ Reencode

SpecCodec == InitCodec /\ [][NextCodec]_vars

\* name == name.rstrip(): the name does not end in a space.
NoTrailingSpace(s) == Len(s) = 0 \/ s[Len(s)] # 32

\* C1: for every name of length <= 6 over {space, A-Z},
\* decode_base27(db1_hash(name)) = name.  It is stated for the names that
\* do not end in a space, the names on which the round trip of section 4.2
\* (== name.rstrip()) and the one of section 8 (== name) ask the same; a
\* name violating this violates the claim as written.
C1_RoundTrip ==
    (pc = "roundtrip" /\ NoTrailingSpace(name)) => dec = name

\* C2: db1_hash is injective on the names of length <= 6 over {space, A-Z}:
\* two different names never get the same hash value.
C2_Injective == pc = "encoded" => (name # name2 => enc # enc2)

\* C3: for every 32-bit value h outside [MIN_HASH, MAX_HASH], every decoder
\* of the repository returns the empty result.
C3_OutOfRangeAbsent ==
    (pc = "decoded" /\ OutOfHashRange(hash_val)) =>
        /\ dec.parse_atgtix2 = <<>>
        /\ dec.generate_attr_info = <<>>
        /\ dec.attlib_debug = <<>>

\* The digit of a character: space is 0, "A".."Z" are 1..26.
Digit(c) == IF c = 32 THEN 0 ELSE c - 64

RECURSIVE PositionalValue(_, _)
\* The sum of Digit(s[i]) * 27^(i - 1) for i in k..Len(s), over 27^(k - 1):
\* the first character is the least-significant digit.
PositionalValue(s, k) ==
    IF k > Len(s) THEN W(0)
    ELSE WMulAdd(PositionalValue(s, k + 1), 27, Digit(s[k]))

\* C18: encode maps space to digit 0 and "A".."Z" to 1..26, the first
\* character the least-significant base-27 digit, and adds 0x81BF1:
\* encode(c0 .. ck) = 0x81BF1 + sum of digit(ci) * 27^i.
C18_EncodeIsPositional ==
    (pc = "encoded" /\ Len(name) >= 1) =>
        enc = WAdd(PositionalValue(name, 1), BASE27_OFFSET)

\* Bounds of the names too long for the hash range: LongNameLen characters,
\* the last one a letter, so that the value is at least 27^6.
LongNameLen == 7
LongNames ==
    {n \in [1..LongNameLen -> {32, 65, 90}] : n[LongNameLen] # 32}

InitEncode ==
    /\ pc = "input"
    /\ enc = None /\ enc2 = None /\ dec = None
    /\ name \in LongNames \cup Names
    /\ name2 = <<>>
    /\ hash_val = W(0)
    /\ IndexIdle /\ CacheIdle /\ SourceIdle

NextEncode == Encode

SpecEncode == InitEncode /\ [][NextEncode]_vars

\* The value of the name is past MAX_HASH = 0x81BF1 + 27^6 - 1.
TooLong(s) == WGt(WAdd(PositionalValue(s, 1), BASE27_OFFSET), W(MAX_HASH))

\* db1_hash has no failing result: <<>> stands for one.
EncodeFailed == <<>>

\* C19: for a name too long for the hash range encode reports a failure;
\* it never returns a clamped, wrapped or truncated value: no value of
\* [MIN_HASH, MAX_HASH], and not SEGMENT_END.
C19_TooLongFails ==
    (pc = "encoded" /\ TooLong(name)) =>
        /\ enc # SEGMENT_END
        /\ ~(WLe(W(MIN_HASH), enc) /\ WLe(enc, W(MAX_HASH)))
        /\ enc = EncodeFailed

----------------------------------------------------------------------------
(* Index segment (ATGTIX).  The data region is a sequence of pages, each a *)
(* sequence of WORDS_PER_PAGE words; page numbers and word indexes count   *)
(* from 0 as in the code, the sequences of TLA+ from 1.                     *)

\* The page width.  The code's is 512 words; the model keeps its role and
\* scales it, so that the ends of pages are met.
WORDS_PER_PAGE == 3

PIPE == 828473                         \* 0x000CA439
SITE == 644698                         \* 0x0009D65A
ANCHOR_HASHES == {W(PIPE), W(SITE)}

InHashRange(w) == ~WLt(w, W(MIN_HASH)) /\ ~WGt(w, W(MAX_HASH))

\* What a function hands back: its value, or the exception it raised.
Returned(v) == [status |-> "returned", value |-> v]
Raised(e)   == [status |-> e, value |-> None]

RECURSIVE parse_index_loop(_, _, _, _)
\* The while True loop of parse_index_from_page, one iteration a call.
parse_index_loop(pgs, page, idx, records) ==
    IF page >= Len(pgs)
    THEN Returned([records |-> records, ended |-> FALSE])
    ELSE IF idx >= WORDS_PER_PAGE
    THEN parse_index_loop(pgs, page + 1, 0, records)
    ELSE LET word == pgs[page + 1][idx + 1]
             idx1 == idx + 1
         IN  IF word = PAGE_SWITCH
             THEN parse_index_loop(pgs, page + 1, 0, records)
             ELSE IF word = SEGMENT_END
             THEN Returned([records |-> records, ended |-> TRUE])
             ELSE IF WLt(word, W(MIN_HASH)) \/ WGt(word, W(MAX_HASH))
             THEN parse_index_loop(pgs, page, idx1, records)
             ELSE IF idx1 >= Len(pgs[page + 1])
             THEN Raised("IndexError")       \* combined = pages[page][idx]
             ELSE LET combined == pgs[page + 1][idx1 + 1]
                      rec == [hash     |-> word,
                              page_num |-> WDiv(combined, WORDS_PER_PAGE),
                              offset   |-> WMod(combined, WORDS_PER_PAGE),
                              combined |-> combined]
                  IN  parse_index_loop(pgs, page, idx1 + 1,
                                       Append(records, rec))

parse_index_from_page(pgs, start_page) ==
    parse_index_loop(pgs, start_page, 0, <<>>)

\* any(MIN_HASH <= w <= MAX_HASH for w in pages[page])
HasHashWord(pg) == \E i \in 1..Len(pg) : InHashRange(pg[i])

\* any(hash_val in ANCHOR_HASHES for hash_val, *_ in records)
HasAnchor(records) ==
    \E i \in 1..Len(records) : records[i].hash \in ANCHOR_HASHES

RECURSIVE find_best_loop(_, _, _, _)
\* The for loop of find_best_start_page, one page a call; an exception of
\* parse_index_from_page leaves the loop and the function.
find_best_loop(pgs, page, best_page, best_count) ==
    IF page >= Len(pgs)
    THEN Returned([best_page |-> best_page, best_count |-> best_count])
    ELSE IF ~HasHashWord(pgs[page + 1])
    THEN find_best_loop(pgs, page + 1, best_page, best_count)
    ELSE LET r == parse_index_from_page(pgs, page)
         IN  IF r.status # "returned" THEN Raised(r.status)
             ELSE IF ~r.value.ended
             THEN find_best_loop(pgs, page + 1, best_page, best_count)
             ELSE IF ~HasAnchor(r.value.records)
             THEN find_best_loop(pgs, page + 1, best_page, best_count)
             ELSE IF Len(r.value.records) > best_count
             THEN find_best_loop(pgs, page + 1, page, Len(r.value.records))
             ELSE find_best_loop(pgs, page + 1, best_page, best_count)

find_best_start_page(pgs) == find_best_loop(pgs, 0, -1, -1)

\* main of parse_atgtix2.py after the pages are loaded: the exit code, the
\* start page and the rows written to the CSV file (None: no file written).
\* An exception nobody catches ends the process with status 1 as well.
main(pgs) ==
    LET found == find_best_start_page(pgs)
    IN  IF found.status # "returned"
        THEN [exit |-> 1, uncaught |-> found.status, wrote |-> FALSE,
              rows |-> <<>>]
        ELSE IF found.value.best_page < 0
        THEN [exit |-> 1, uncaught |-> None, wrote |-> FALSE, rows |-> <<>>]
        ELSE LET r == parse_index_from_page(pgs, found.value.best_page)
             IN  IF r.status # "returned"
                 THEN [exit |-> 1, uncaught |-> r.status, wrote |-> TRUE,
                       rows |-> <<>>]
                 ELSE [exit |-> 0, uncaught |-> None, wrote |-> TRUE,
                       rows |-> r.value.records]

RECURSIVE atgtix2_loop(_, _, _, _)
\* The for loop of parse_atgtix2 (noun_to_attrs.py): the same scan, keeping
\* the best records instead of their count.
atgtix2_loop(pgs, page, best_page, best_records) ==
    IF page >= Len(pgs)
    THEN Returned([best_page |-> best_page, best_records |-> best_records])
    ELSE IF ~HasHashWord(pgs[page + 1])
    THEN atgtix2_loop(pgs, page + 1, best_page, best_records)
    ELSE LET r == parse_index_from_page(pgs, page)
         IN  IF r.status # "returned" THEN Raised(r.status)
             ELSE IF ~r.value.ended
             THEN atgtix2_loop(pgs, page + 1, best_page, best_records)
             ELSE IF ~HasAnchor(r.value.records)
             THEN atgtix2_loop(pgs, page + 1, best_page, best_records)
             ELSE IF Len(r.value.records) > Len(best_records)
             THEN atgtix2_loop(pgs, page + 1, page, r.value.records)
             ELSE atgtix2_loop(pgs, page + 1, best_page, best_records)

parse_atgtix2(pgs) == atgtix2_loop(pgs, 0, -1, <<>>)

\* A dict update d[k] = v, the dict a function from its keys.
DictPut(d, k, v) == [x \in (DOMAIN d) \cup {k} |-> IF x = k THEN v ELSE d[x]]

RECURSIVE atgtix_loop(_, _, _, _)
\* The two loops of AttlibParser.load_atgtix: read_page raises struct.error
\* past the end of the file; a page used up with no sentinel is read again
\* for ever, since neither page_num nor word_idx changes.
atgtix_loop(pgs, page_num, word_idx, attr_index) ==
    IF page_num >= Len(pgs) THEN Raised("struct.error")
    ELSE IF word_idx >= WORDS_PER_PAGE THEN Raised("hang")
    ELSE LET words == pgs[page_num + 1]
             word == words[word_idx + 1]
             idx1 == word_idx + 1
         IN  IF word = PAGE_SWITCH
             THEN atgtix_loop(pgs, page_num + 1, 0, attr_index)
             ELSE IF word = SEGMENT_END THEN Returned(attr_index)
             ELSE IF ~InHashRange(word)
             THEN atgtix_loop(pgs, page_num, idx1, attr_index)
             ELSE IF idx1 >= WORDS_PER_PAGE
             THEN IF page_num + 1 >= Len(pgs) THEN Raised("struct.error")
                  ELSE atgtix_loop(pgs, page_num + 1, 1,
                          DictPut(attr_index, word, pgs[page_num + 2][1]))
             ELSE atgtix_loop(pgs, page_num, idx1 + 1,
                     DictPut(attr_index, word, words[idx1 + 1]))

load_atgtix(pgs) == atgtix_loop(pgs, 0, 0, <<>>)

\* Bounds of the files: up to NumPages pages over Words.
NumPages == 2
Words == {PAGE_SWITCH, SEGMENT_END, W(PIPE), W(7)}
Pages == [1..WORDS_PER_PAGE -> Words]
Files == UNION {[1..n -> Pages] : n \in 0..NumPages}

CodecIdle ==
    /\ name = <<>> /\ name2 = <<>> /\ hash_val = W(0)
    /\ enc = None /\ enc2 = None /\ dec = None

InitIndex ==
    /\ pc = "input"
    /\ pages \in Files
    /\ pointer_table = <<>> /\ segment_pointers = <<>>
    /\ result = None
    /\ CodecIdle /\ CacheIdle /\ SourceIdle

\* parse_index_from_page(pages, start_page) from any start page.
ParseIndex ==
    /\ pc = "input"
    /\ \E start_page \in 0..NumPages :
          result' = [start_page |-> start_page,
                     parse |-> parse_index_from_page(pages, start_page)]
    /\ pc' = "parsed"
    /\ UNCHANGED <<pages, pointer_table, segment_pointers, codecVars, cacheVars,
                   sourceVars>>

\* AttlibParser.load_atgtix, which always starts at page 0.
LoadIndex ==
    /\ pc = "input"
    /\ result' = [start_page |-> 0, parse |-> load_atgtix(pages)]
    /\ pc' = "indexed"
    /\ UNCHANGED <<pages, pointer_table, segment_pointers, codecVars, cacheVars,
                   sourceVars>>

NextIndex == ParseIndex \/ LoadIndex

SpecIndex == InitIndex /\ [][NextIndex]_vars

\* C5: in a record [hash][combined], a PAGE_SWITCH between the hash and the
\* combined word is consumed by the cursor, which takes combined from word
\* 0 of the next page; the records are those of the same stream with no
\* PAGE_SWITCH and no page boundary inside the record.
SwitchInsideRecord(pgs, s) ==
    /\ s + 2 <= Len(pgs)
    /\ InHashRange(pgs[s + 1][1])
    /\ pgs[s + 1][2] = PAGE_SWITCH
    /\ pgs[s + 2][1] \notin {PAGE_SWITCH, SEGMENT_END}

\* The same record with no page boundary inside it, then SEGMENT_END.
Unsplit(pgs, s) == << <<pgs[s + 1][1], pgs[s + 2][1], SEGMENT_END>> >>

C5_PageSwitchInsideRecord ==
    /\ (pc = "parsed" /\ SwitchInsideRecord(pages, result.start_page)) =>
          /\ result.parse.status = "returned"
          /\ Len(result.parse.value.records) >= 1
          /\ result.parse.value.records[1].hash =
                pages[result.start_page + 1][1]
          /\ result.parse.value.records[1].combined =
                pages[result.start_page + 2][1]
          /\ pages[result.start_page + 2][2] = SEGMENT_END =>
                result.parse.value.records =
                   parse_index_from_page(
                      Unsplit(pages, result.start_page), 0).value.records
    /\ (pc = "indexed" /\ SwitchInsideRecord(pages, 0)
          /\ pages[2][2] = SEGMENT_END) =>
          /\ result.parse.status = "returned"
          /\ result.parse.value = load_atgtix(Unsplit(pages, 0)).value

\* No SEGMENT_END at or after page start_page: the cursor can only run off
\* the end of the file.
NoSegmentEndFrom(pgs, start_page) ==
    \A p \in 1..Len(pgs) : \A i \in 1..Len(pgs[p]) :
        p > start_page => pgs[p][i] # SEGMENT_END

\* C6: when the cursor runs past the last page before any SEGMENT_END is
\* read (also when a hash is the last word of the last page), the parse ends
\* without raising and returns its records as a truncated stream.
C6_TruncatedStream ==
    (pc = "parsed" /\ NoSegmentEndFrom(pages, result.start_page)) =>
        /\ result.parse.status = "returned"
        /\ ~result.parse.value.ended

----------------------------------------------------------------------------
(* Start-page discovery: find_best_start_page and main of                   *)
(* parse_atgtix2.py, on files of up to NumScanPages pages.  A page of      *)
(* ScanPages holds one record slot and one trailing word.                  *)

NumScanPages == 4
ScanPages ==
    {<<h, W(7), t>> : h \in {W(PIPE), W(MIN_HASH), PAGE_SWITCH},
                      t \in {SEGMENT_END, PAGE_SWITCH, W(MIN_HASH)}}
ScanFiles == UNION {[1..n -> ScanPages] : n \in 0..NumScanPages}

InitDiscover ==
    /\ pc = "input"
    /\ pages \in ScanFiles
    /\ pointer_table = <<>> /\ segment_pointers = <<>>
    /\ result = None
    /\ CodecIdle /\ CacheIdle /\ SourceIdle

\* Both discovery functions and the main that uses the first.
Discover ==
    /\ pc = "input"
    /\ result' = [found |-> find_best_start_page(pages),
                  atgtix2 |-> parse_atgtix2(pages),
                  main |-> main(pages)]
    /\ pc' = "discovered"
    /\ UNCHANGED <<pages, pointer_table, segment_pointers, codecVars, cacheVars,
                   sourceVars>>

NextDiscover == Discover

SpecDiscover == InitDiscover /\ [][NextDiscover]_vars

\* Page p is an accepted candidate: it holds a word of the hash range, the
\* parse from it reaches SEGMENT_END, and its records hold an anchor hash.
Accepted(pgs, p) ==
    /\ HasHashWord(pgs[p + 1])
    /\ LET r == parse_index_from_page(pgs, p)
       IN  /\ r.status = "returned"
           /\ r.value.ended
           /\ HasAnchor(r.value.records)

RecordCount(pgs, p) == Len(parse_index_from_page(pgs, p).value.records)

PageNumbers(pgs) == 0..(Len(pgs) - 1)

\* P is accepted, and the parse from Q holds more records but no anchor.
AnchorVersusMore(pgs, P, Q) ==
    /\ Accepted(pgs, P)
    /\ LET r == parse_index_from_page(pgs, Q)
       IN  /\ r.status = "returned"
           /\ ~HasAnchor(r.value.records)
           /\ Len(r.value.records) > RecordCount(pgs, P)

\* C7: discovery returns a page P only if the parse from P reaches
\* SEGMENT_END and its records hold an anchor hash; given an anchor page
\* with fewer records and a page with more records and no anchor,
\* discovery selects the anchor-holding page.
C7_SelectsAcceptedPage ==
    pc = "discovered" =>
        /\ (result.found.status = "returned"
              /\ result.found.value.best_page >= 0)
           => Accepted(pages, result.found.value.best_page)
        /\ \A P, Q \in PageNumbers(pages) :
              AnchorVersusMore(pages, P, Q) =>
                 /\ result.found.status = "returned"
                 /\ result.found.value.best_page >= 0
                 /\ result.found.value.best_page # Q
                 /\ Accepted(pages, result.found.value.best_page)

\* p is the accepted page with the most records, the lowest such page.
BestAccepted(pgs, p) ==
    /\ Accepted(pgs, p)
    /\ \A q \in PageNumbers(pgs) :
          Accepted(pgs, q) =>
             \/ RecordCount(pgs, q) < RecordCount(pgs, p)
             \/ RecordCount(pgs, q) = RecordCount(pgs, p) /\ p <= q

\* C8: among the accepted candidates discovery selects the one with the
\* most records, and among those of the same maximal count the lowest page.
C8_SelectsMostRecords ==
    pc = "discovered" =>
        \A p \in PageNumbers(pages) :
            BestAccepted(pages, p) =>
               /\ result.found.status = "returned"
               /\ result.found.value.best_page = p
               /\ result.found.value.best_count = RecordCount(pages, p)
               /\ result.atgtix2.status = "returned"
               /\ result.atgtix2.value.best_page = p

\* C9: when no page is an accepted candidate, discovery reports
\* SegmentNotFound (start page -1, failing exit), nothing is written, and
\* no default start page is used.
C9_SegmentNotFound ==
    (pc = "discovered"
       /\ \A p \in PageNumbers(pages) : ~Accepted(pages, p)) =>
        /\ result.found.status = "returned"
        /\ result.found.value.best_page = -1
        /\ result.atgtix2.status = "returned"
        /\ result.atgtix2.value.best_page = -1
        /\ result.main.exit = 1
        /\ result.main.uncaught = None
        /\ ~result.main.wrote

EveryParseReturns(pgs) ==
    \A p \in PageNumbers(pgs) :
        HasHashWord(pgs[p + 1]) =>
            parse_index_from_page(pgs, p).status = "returned"

\* C7, C8 and C9 on the files on which no candidate's parse raises.
DiscoveryWhenParsesReturn ==
    (pc = "discovered" /\ EveryParseReturns(pages)) =>
        /\ C7_SelectsAcceptedPage
        /\ C8_SelectsMostRecords
        /\ C9_SegmentNotFound

\* ---------------------------------------------------------------------
\* AttlibDataSource of e3d_attribute_parser.py: the index loader.

\* _read_page: a page past the end of the file is the empty list. (The
\* page cache only saves the read; the file does not change.)
_read_page(pgs, page_num) ==
    IF page_num < Len(pgs) THEN pgs[page_num + 1] ELSE <<>>

Loaded(status, d, end_at) ==
    [status |-> status, hash_to_combined_id |-> d, end_at |-> end_at]

RECURSIVE load_inner(_, _, _, _, _, _, _)
\* The loops of _load_atgtix from one start page. end_at records where the
\* first SEGMENT_END was read, <<>> while none was.
load_inner(pgs, page_num, words, word_idx, found_in_page, d, end_at) ==
    IF word_idx >= WORDS_PER_PAGE
    THEN \* if found_in_page == 0 or words[0] == SEGMENT_END: break
         IF found_in_page = 0 THEN Loaded("returned", d, end_at)
         ELSE IF Len(words) = 0 THEN Loaded("IndexError", d, end_at)
         ELSE IF words[1] = SEGMENT_END THEN Loaded("returned", d, end_at)
         ELSE load_inner(pgs, page_num + 1, _read_page(pgs, page_num + 1),
                         0, 0, d, end_at)
    ELSE IF word_idx >= Len(words) THEN Loaded("IndexError", d, end_at)
    ELSE LET word == words[word_idx + 1]
             idx1 == word_idx + 1
         IN  IF word = PAGE_SWITCH
             THEN load_inner(pgs, page_num + 1,
                             _read_page(pgs, page_num + 1), 0,
                             found_in_page, d, end_at)
             ELSE IF word = SEGMENT_END
             THEN \* break leaves the inner loop only
                  load_inner(pgs, page_num, words, WORDS_PER_PAGE,
                             found_in_page, d,
                             IF end_at = <<>> THEN <<page_num, word_idx>>
                             ELSE end_at)
             ELSE IF InHashRange(word) /\ idx1 < WORDS_PER_PAGE
             THEN load_inner(pgs, page_num, words, idx1 + 1,
                             found_in_page + 1,
                             DictPut(d, word, words[idx1 + 1]), end_at)
             ELSE load_inner(pgs, page_num, words, idx1, found_in_page, d,
                             end_at)

RECURSIVE load_segments(_, _, _, _)
\* for segment_idx in [1, 2, 3], from position k of that list on.
load_segments(pgs, pointers, k, loaded) ==
    IF k > 3 \/ loaded.status # "returned" THEN loaded
    ELSE IF k >= Len(pointers)
    THEN Loaded("IndexError", loaded.hash_to_combined_id, loaded.end_at)
    ELSE IF pointers[k + 1] = 0
    THEN load_segments(pgs, pointers, k + 1, loaded)
    ELSE load_segments(pgs, pointers, k + 1,
            load_inner(pgs, pointers[k + 1],
                       _read_page(pgs, pointers[k + 1]), 0, 0,
                       loaded.hash_to_combined_id, loaded.end_at))

_load_atgtix(pgs, pointers) ==
    IF Len(pointers) < 3 THEN Loaded("returned", <<>>, <<>>)
    ELSE load_segments(pgs, pointers, 1, Loaded("returned", <<>>, <<>>))

\* Page 0 is never an index page: a segment pointer 0 is skipped.
Page0 == [i \in 1..WORDS_PER_PAGE |-> W(7)]

\* Bounds of the loaded files: every file of Files, and the files of
\* NumLoadPages pages [hash or sentinel, combined, any word].
NumLoadPages == 3
LoadPages ==
    {<<h, c, t>> : h \in {W(PIPE), SEGMENT_END, PAGE_SWITCH},
                   c \in {W(7), W(PIPE)},
                   t \in {SEGMENT_END, PAGE_SWITCH, W(7)}}
LoadFiles == Files \cup [1..NumLoadPages -> LoadPages]
PointerTables ==
    {<<0, a, b, 0, 0, 0, 0, 0>> : a, b \in 0..NumLoadPages} \cup {<<0, 1>>}

InitLoad ==
    /\ pc = "input"
    /\ pages \in {<<Page0>> \o f : f \in LoadFiles}
    /\ segment_pointers \in PointerTables
    /\ pointer_table = segment_pointers
    /\ result = None
    /\ CodecIdle /\ CacheIdle /\ SourceIdle

Load ==
    /\ pc = "input"
    /\ result' = _load_atgtix(pages, segment_pointers)
    /\ pc' = "loaded"
    /\ UNCHANGED <<pages, pointer_table, segment_pointers, codecVars, cacheVars,
                   sourceVars>>

NextLoad == Load

SpecLoad == InitLoad /\ [][NextLoad]_vars

\* The file with every word after position at replaced by SEGMENT_END.
CutAfter(pgs, at) ==
    [p \in 1..Len(pgs) |->
        [i \in 1..WORDS_PER_PAGE |->
            IF p - 1 > at[1] \/ (p - 1 = at[1] /\ i - 1 > at[2])
            THEN SEGMENT_END ELSE pgs[p][i]]]

OneSegment(pointers) ==
    Len(pointers) >= 3 /\ Cardinality({k \in 2..4 : pointers[k] # 0}) = 1

\* C4: when the index parse reads SEGMENT_END where it expects a hash it
\* stops at that word: no later word, on the same or a later page, adds an
\* entry, so the index is the one loaded from the file that holds nothing
\* but SEGMENT_END after that word.
C4_StopsAtSegmentEnd ==
    (pc = "loaded" /\ OneSegment(segment_pointers)
       /\ result.end_at # <<>>) =>
        /\ result.status = "returned"
        /\ result.hash_to_combined_id =
              _load_atgtix(CutAfter(pages, result.end_at),
                           segment_pointers).hash_to_combined_id

\* C4 on the loads that return: entries read after SEGMENT_END are in the
\* index even when nothing is raised.
StopsAtSegmentEndWhenReturned ==
    (pc = "loaded" /\ result.status = "returned") => C4_StopsAtSegmentEnd

\* C4 for parse_index_from_page: a parse that ended at SEGMENT_END has the
\* records of the file cut after any page it read up to that word.
ParseStopsAtSegmentEnd ==
    (pc = "parsed" /\ result.parse.status = "returned"
       /\ result.parse.value.ended) =>
        \E p \in 0..(Len(pages) - 1) : \E i \in 0..(WORDS_PER_PAGE - 1) :
            /\ pages[p + 1][i + 1] = SEGMENT_END
            /\ parse_index_from_page(CutAfter(pages, <<p, i>>),
                                     result.start_page) = result.parse

\* ---------------------------------------------------------------------
\* AttlibCache of e3d_attribute_parser.py.

RECURSIVE list_remove(_, _)
\* list.remove(x): drops the first x.
list_remove(s, x) ==
    IF Len(s) = 0 THEN s
    ELSE IF Head(s) = x THEN Tail(s)
    ELSE <<Head(s)>> \o list_remove(Tail(s), x)

DictDel(d, k) == [x \in (DOMAIN d) \ {k} |-> d[x]]

\* Bounds of the cache: capacities 1..MaxCacheEntries, attribute ids
\* 1..NumAttrs.
MaxCacheEntries == 2
NumAttrs == 3
DataTypes == {3, 4}
Metadata ==
    [attr_id : 1..NumAttrs, data_type : DataTypes, offset : {0},
     length : {4}]

\* AttlibCache(max_entries)
InitCache ==
    /\ pc = "input"
    /\ max_entries \in 1..MaxCacheEntries
    /\ cache = <<>>
    /\ access_order = <<>>
    /\ pages = <<>> /\ pointer_table = <<>> /\ segment_pointers = <<>>
    /\ result = None
    /\ CodecIdle /\ SourceIdle

get(attr_id) ==
    /\ IF attr_id \in DOMAIN cache
       THEN /\ access_order' =
                  Append(list_remove(access_order, attr_id), attr_id)
            /\ result' = cache[attr_id]
       ELSE /\ access_order' = access_order
            /\ result' = None
    /\ pc' = "get"
    /\ UNCHANGED <<max_entries, cache>>

\* put with the eviction branch left out.
put_without_eviction(metadata) ==
    /\ IF metadata.attr_id \in DOMAIN cache
       THEN /\ pc' = "put_cached"
            /\ UNCHANGED <<cache, access_order>>
       ELSE /\ cache' = DictPut(cache, metadata.attr_id, metadata)
            /\ access_order' = Append(access_order, metadata.attr_id)
            /\ pc' = "put"
    /\ result' = None
    /\ UNCHANGED max_entries

\* put that moves an attribute already cached to the end of access_order.
put_refreshing(metadata) ==
    /\ IF metadata.attr_id \in DOMAIN cache
       THEN /\ pc' = "put_cached"
            /\ access_order' =
                  Append(list_remove(access_order, metadata.attr_id),
                         metadata.attr_id)
            /\ UNCHANGED cache
       ELSE IF Cardinality(DOMAIN cache) >= max_entries
       THEN /\ cache' = DictPut(DictDel(cache, Head(access_order)),
                                metadata.attr_id, metadata)
            /\ access_order' = Append(Tail(access_order), metadata.attr_id)
            /\ pc' = "put_evicted"
       ELSE /\ cache' = DictPut(cache, metadata.attr_id, metadata)
            /\ access_order' = Append(access_order, metadata.attr_id)
            /\ pc' = "put"
    /\ result' = None
    /\ UNCHANGED max_entries

put(metadata) ==
    /\ IF metadata.attr_id \in DOMAIN cache
       THEN /\ pc' = "put_cached"
            /\ UNCHANGED <<cache, access_order>>
       ELSE IF Cardinality(DOMAIN cache) >= max_entries
       THEN \* oldest = access_order.pop(0); del cache[oldest]
            /\ cache' = DictPut(DictDel(cache, Head(access_order)),
                                metadata.attr_id, metadata)
            /\ access_order' = Append(Tail(access_order), metadata.attr_id)
            /\ pc' = "put_evicted"
       ELSE /\ cache' = DictPut(cache, metadata.attr_id, metadata)
            /\ access_order' = Append(access_order, metadata.attr_id)
            /\ pc' = "put"
    /\ result' = None
    /\ UNCHANGED max_entries

clear ==
    /\ cache' = <<>>
    /\ access_order' = <<>>
    /\ result' = None
    /\ pc' = "clear"
    /\ UNCHANGED max_entries

Get ==
    /\ \E attr_id \in 1..NumAttrs : get(attr_id)
    /\ UNCHANGED <<pages, pointer_table, segment_pointers, codecVars, sourceVars>>

Put ==
    /\ \E metadata \in Metadata : put(metadata)
    /\ UNCHANGED <<pages, pointer_table, segment_pointers, codecVars, sourceVars>>

Clear ==
    /\ clear
    /\ UNCHANGED <<pages, pointer_table, segment_pointers, codecVars, sourceVars>>

NextCache == Get \/ Put \/ Clear

SpecCache == InitCache /\ [][NextCache]_vars

\* C10: after any sequence of get, put and clear on an AttlibCache with
\* max_entries = N >= 1, the cache holds at most N entries.
C10_AtMostMaxEntries ==
    max_entries >= 1 => Cardinality(DOMAIN cache) <= max_entries

\* A put on a full cache has evicted an entry and the cache is full again.
C10_Witness ==
    /\ pc = "put_evicted"
    /\ max_entries = MaxCacheEntries
    /\ Cardinality(DOMAIN cache) = max_entries

\* ---------------------------------------------------------------------
\* read_page of the three readers.  A file may end inside a page: its
\* last page then holds fewer than WORDS_PER_PAGE words (bytes past the
\* last whole word are dropped by every reader's 4-byte slices).

\* AttlibDataSource._read_page with its page cache: what it returns and
\* the cache after it.
e3d_read_page(pgs, pcache, page_num) ==
    IF page_num \in DOMAIN pcache
    THEN [read |-> Returned(pcache[page_num]), page_cache |-> pcache]
    ELSE [read |-> Returned(_read_page(pgs, page_num)),
          page_cache |-> DictPut(pcache, page_num, _read_page(pgs, page_num))]

\* AttlibParser.read_page (parse_attlib.py): struct.unpack of a slice
\* shorter than 4 bytes raises struct.error before anything is cached.
attlib_read_page(pgs, pcache, page_num) ==
    IF page_num \in DOMAIN pcache
    THEN [read |-> Returned(pcache[page_num]), page_cache |-> pcache]
    ELSE IF Len(_read_page(pgs, page_num)) < WORDS_PER_PAGE
    THEN [read |-> Raised("struct.error"), page_cache |-> pcache]
    ELSE [read |-> Returned(_read_page(pgs, page_num)),
          page_cache |-> DictPut(pcache, page_num, _read_page(pgs, page_num))]

\* AttlibCompleteParser.read_page: a short read returns the empty list;
\* this reader has no cache.  Its offset is page_num * page_size: pgs are
\* the pages counted from where the reader starts.
complete_read_page(pgs, pcache, page_num) ==
    IF Len(_read_page(pgs, page_num)) < WORDS_PER_PAGE
    THEN [read |-> Returned(<<>>), page_cache |-> pcache]
    ELSE [read |-> Returned(_read_page(pgs, page_num)), page_cache |-> pcache]

\* Bounds of the truncated files: up to NumPages whole pages, then nothing
\* or one page cut after 0..WORDS_PER_PAGE - 1 words.
StoreWords == {W(7), W(PIPE)}
WholeFiles ==
    UNION {[1..n -> [1..WORDS_PER_PAGE -> StoreWords]] : n \in 0..NumPages}
CutPages ==
    UNION {[1..k -> StoreWords] : k \in 1..(WORDS_PER_PAGE - 1)}
TruncatedFiles ==
    WholeFiles \cup {f \o <<c>> : f \in WholeFiles, c \in CutPages}

\* pc names the reader that owns page_cache.
InitPageStore ==
    /\ pc \in {"e3d", "parse_attlib", "parse_attlib_complete"}
    /\ pages \in TruncatedFiles
    /\ page_cache = <<>>
    /\ pointer_table = <<>> /\ segment_pointers = <<>> /\ result = None
    /\ attr_definitions = <<>> /\ hash_to_combined_id = <<>>
    /\ noun_attr_bindings = <<>> /\ history = <<>>
    /\ CodecIdle /\ CacheIdle

PageStoreUnchanged ==
    UNCHANGED <<pc, pages, pointer_table, segment_pointers, codecVars, cacheVars,
                attr_definitions, hash_to_combined_id, noun_attr_bindings>>

\* One read_page(page_num) of the reader; history keeps that a read ran.
ReadPageWith(r, page_num) ==
    /\ result' = [page_num |-> page_num, read |-> r.read]
    /\ page_cache' = r.page_cache
    /\ history' = <<"read">>
    /\ PageStoreUnchanged

E3dReadPage ==
    /\ pc = "e3d"
    /\ \E page_num \in 0..(NumPages + 1) :
          ReadPageWith(e3d_read_page(pages, page_cache, page_num), page_num)

AttlibReadPage ==
    /\ pc = "parse_attlib"
    /\ \E page_num \in 0..(NumPages + 1) :
          ReadPageWith(attlib_read_page(pages, page_cache, page_num),
                       page_num)

CompleteReadPage ==
    /\ pc = "parse_attlib_complete"
    /\ \E page_num \in 0..(NumPages + 1) :
          ReadPageWith(complete_read_page(pages, page_cache, page_num),
                       page_num)

NextPageStore == E3dReadPage \/ AttlibReadPage \/ CompleteReadPage

SpecPageStore == InitPageStore /\ [][NextPageStore]_vars

\* The words available at the page's offset.
WordsAvailable(pgs, page_num) == Len(_read_page(pgs, page_num))

\* C20: read_page fails whenever fewer than a page of bytes is available at
\* the page's offset; it never returns or caches a page of fewer than
\* WORDS_PER_PAGE words.
C20_TruncatedPageFails ==
    history = <<"read">> =>
        /\ WordsAvailable(pages, result.page_num) < WORDS_PER_PAGE =>
              result.read.status # "returned"
        /\ result.read.status = "returned" =>
              Len(result.read.value) = WORDS_PER_PAGE
        /\ \A n \in DOMAIN page_cache : Len(page_cache[n]) = WORDS_PER_PAGE

\* C20 for the reader of parse_attlib.py alone.
AttlibReadPageFails == pc = "parse_attlib" => C20_TruncatedPageFails

\* ---------------------------------------------------------------------
\* Sentinels and hash range in the entries of the index parsers.

Sentinel(w) == w = PAGE_SWITCH \/ w = SEGMENT_END

\* The [hash, combined] pairs of what the parse of SpecIndex returned.
IndexEntries ==
    IF pc = "parsed" /\ result.parse.status = "returned"
    THEN {<<result.parse.value.records[i].hash,
            result.parse.value.records[i].combined>> :
             i \in 1..Len(result.parse.value.records)}
    ELSE IF pc = "indexed" /\ result.parse.status = "returned"
    THEN {<<h, result.parse.value[h]>> : h \in DOMAIN result.parse.value}
    ELSE {}

\* C23: no entry of a segment parser stores a sentinel: neither the hash
\* nor the combined word of an index entry is PAGE_SWITCH or SEGMENT_END.
C23_NoSentinelStored ==
    \A e \in IndexEntries : ~Sentinel(e[1]) /\ ~Sentinel(e[2])

\* The hash field never holds a sentinel.
NoSentinelHash == \A e \in IndexEntries : ~Sentinel(e[1])

\* Word n (from 0) of the stream that starts at word 0 of page s.
StreamWord(pgs, s, n) ==
    pgs[s + 1 + (n \div WORDS_PER_PAGE)][(n % WORDS_PER_PAGE) + 1]

StreamLen(pgs, s) ==
    IF s >= Len(pgs) THEN 0 ELSE (Len(pgs) - s) * WORDS_PER_PAGE

\* The stream from page s starts with k words that are neither hashes nor
\* sentinels, then holds a record [hash][combined] inside one page.
PaddingThenRecord(pgs, s, k) ==
    /\ k + 1 < StreamLen(pgs, s)
    /\ \A j \in 0..(k - 1) :
          /\ ~InHashRange(StreamWord(pgs, s, j))
          /\ ~Sentinel(StreamWord(pgs, s, j))
    /\ InHashRange(StreamWord(pgs, s, k))
    /\ (k % WORDS_PER_PAGE) + 1 < WORDS_PER_PAGE
    /\ ~Sentinel(StreamWord(pgs, s, k + 1))

\* The start page of the one segment the table names.
StartPage(pointers) == pointers[CHOOSE k \in 2..4 : pointers[k] # 0]

\* C24: every key of the index lies in [MIN_HASH, MAX_HASH], and words out
\* of that range met where a hash is expected are skipped: they neither end
\* the parse nor take the next word with them, so the record that follows
\* them is in the index.
C24_OutOfRangeSkipped ==
    (pc = "loaded" /\ OneSegment(segment_pointers)) =>
        /\ \A h \in DOMAIN result.hash_to_combined_id : InHashRange(h)
        /\ \A k \in 1..(NumLoadPages * WORDS_PER_PAGE) :
              PaddingThenRecord(pages, StartPage(segment_pointers), k) =>
                  StreamWord(pages, StartPage(segment_pointers), k)
                     \in DOMAIN result.hash_to_combined_id

\* Every key of the loaded index is in the hash range.
LoadedKeysInRange ==
    pc = "loaded" =>
        \A h \in DOMAIN result.hash_to_combined_id : InHashRange(h)

\* Out-of-range words before a record of the start page are skipped.
SkippedInsideStartPage ==
    (pc = "loaded" /\ OneSegment(segment_pointers)) =>
        \A k \in 1..(WORDS_PER_PAGE - 1) :
            PaddingThenRecord(pages, StartPage(segment_pointers), k) =>
                StreamWord(pages, StartPage(segment_pointers), k)
                   \in DOMAIN result.hash_to_combined_id

\* C24 for parse_index_from_page: the record after the skipped words is
\* among the records.
ParseSkipsOutOfRange ==
    (pc = "parsed" /\ result.parse.status = "returned") =>
        /\ \A e \in IndexEntries : InHashRange(e[1])
        /\ \A k \in 1..(NumPages * WORDS_PER_PAGE) :
              PaddingThenRecord(pages, result.start_page, k) =>
                  \E e \in IndexEntries :
                      e[1] = StreamWord(pages, result.start_page, k)

\* ---------------------------------------------------------------------
\* The file layout: the pointer table at 0x0800 and the page a segment
\* pointer leads to.  Offsets are counted in bytes.  PAGE_SIZE is scaled
\* with WORDS_PER_PAGE; the table and the data region keep their places,
\* one page and two pages from the start of the file.

PAGE_SIZE == 4 * WORDS_PER_PAGE
SEGMENT_POINTERS_OFFSET == PAGE_SIZE
DATA_REGION_START == 2 * PAGE_SIZE
NUM_POINTERS == 8

\* Byte 0 on: the header text, a page of words that are no page numbers.
HeaderPage == [i \in 1..WORDS_PER_PAGE |-> W(7)]

\* The words of the page at SEGMENT_POINTERS_OFFSET: the table's first.
TablePage(table) ==
    [i \in 1..(IF Len(table) < WORDS_PER_PAGE THEN Len(table)
               ELSE WORDS_PER_PAGE) |-> W(table[i])]

\* The pages of the file from byte 0 on; the data region pgs follows a
\* whole table only.
file_pages(table, pgs) ==
    IF Len(table) < NUM_POINTERS THEN <<HeaderPage, TablePage(table)>>
    ELSE <<HeaderPage, TablePage(table)>> \o pgs

\* The words the file holds in the PAGE_SIZE bytes from offset on.
words_at(table, pgs, offset) ==
    _read_page(file_pages(table, pgs), offset \div PAGE_SIZE)

\* AttlibDataSource._read_segment_pointers: every whole word of the 8 is
\* appended as it is; a read of fewer than 4 bytes appends nothing.
_read_segment_pointers(table) == Returned(table)

\* AttlibCompleteParser.read_section_pointers: break at a short read;
\* page_num = ptr // self.page_size.
read_section_pointers(table) ==
    Returned([i \in 1..Len(table) |-> table[i] \div PAGE_SIZE])

\* read_segment_pointers of attlib_debug.py: 32 bytes or RuntimeError.
read_segment_pointers(table) ==
    IF Len(table) # NUM_POINTERS THEN Raised("RuntimeError")
    ELSE Returned(table)

\* file_offset of AttlibDataSource._read_page, of read_page of
\* attlib_debug.py and of AttlibParser.read_page.
e3d_file_offset(page_num) == DATA_REGION_START + page_num * PAGE_SIZE

\* offset of AttlibCompleteParser.read_page.
complete_offset(page_num) == page_num * PAGE_SIZE

\* The page at the start of segment k of a table that was read, by the
\* reader's own read_page: the offset it seeks and the words it gets.
SegmentPage(k, offset, words) ==
    [status |-> "returned", segment |-> k, offset |-> offset,
     words |-> words]

\* self._read_page(self.segment_pointers[k]) of AttlibDataSource.  The
\* loaders check the table's length for segments 1 and 2 only.
e3d_segment_page(table, pgs, pointers, k) ==
    IF k >= Len(pointers) THEN Raised("IndexError")
    ELSE SegmentPage(k, e3d_file_offset(pointers[k + 1]),
                     e3d_read_page(pgs, <<>>, pointers[k + 1]).read.value)

\* read_page(f, segs[k]) of attlib_debug.py: a whole page or RuntimeError.
debug_segment_page(table, pgs, pointers, k) ==
    IF Len(_read_page(pgs, pointers[k + 1])) # WORDS_PER_PAGE
    THEN Raised("RuntimeError")
    ELSE SegmentPage(k, e3d_file_offset(pointers[k + 1]),
                     _read_page(pgs, pointers[k + 1]))

\* self.read_page(file, self.section_pointers[k]) of AttlibCompleteParser,
\* whose pages are counted from byte 0 of the file.
complete_segment_page(table, pgs, pointers, k) ==
    SegmentPage(k, complete_offset(pointers[k + 1]),
                complete_read_page(file_pages(table, pgs), <<>>,
                                   pointers[k + 1]).read.value)

\* Inputs: tables of 0..NUM_POINTERS words (a file may end inside the
\* table) and data regions whose pages differ from each other.
PointerValues == {1, DATA_REGION_START}
PointerTableWords ==
    UNION {[1..n -> PointerValues] : n \in 0..NUM_POINTERS}
PageOf(p) == [i \in 1..WORDS_PER_PAGE |-> W(PIPE + p)]
AddressFiles == {<<PageOf(0)>>, <<PageOf(0), PageOf(1)>>}

\* pc names the script that reads the file.
InitTable ==
    /\ pc \in {"e3d", "parse_attlib_complete", "attlib_debug"}
    /\ pointer_table \in PointerTableWords
    /\ pages \in (IF Len(pointer_table) < NUM_POINTERS THEN {<<>>}
                  ELSE AddressFiles)
    /\ segment_pointers = <<>> /\ result = None
    /\ CodecIdle /\ CacheIdle /\ SourceIdle

TableUnchanged ==
    UNCHANGED <<pc, pages, pointer_table, codecVars, cacheVars,
                attr_definitions, hash_to_combined_id, noun_attr_bindings,
                page_cache>>

\* The reader's table after its read; a read that raised leaves none.
ReadPointersWith(r) ==
    /\ history = <<>>
    /\ result' = r
    /\ segment_pointers' = IF r.status = "returned" THEN r.value ELSE <<>>
    /\ history' = <<"pointers">>
    /\ TableUnchanged

E3dReadPointers ==
    pc = "e3d" /\ ReadPointersWith(_read_segment_pointers(pointer_table))

CompleteReadPointers ==
    /\ pc = "parse_attlib_complete"
    /\ ReadPointersWith(read_section_pointers(pointer_table))

DebugReadPointers ==
    /\ pc = "attlib_debug"
    /\ ReadPointersWith(read_segment_pointers(pointer_table))

\* A table that was returned is used: the start page of segment k is
\* read (the guards of the three actions are the uses the scripts make).
ReadSegmentWith(r) ==
    /\ history = <<"pointers">>
    /\ result.status = "returned"
    /\ result' = r
    /\ history' = <<"pointers", "page">>
    /\ UNCHANGED segment_pointers
    /\ TableUnchanged

\* _scan_for_attr reads the page of every entry the table has;
\* _load_atgtix reads those of segments 1, 2 and 3 of a table of 3 entries
\* or more.
E3dReadSegment ==
    /\ pc = "e3d"
    /\ \E k \in 0..(NUM_POINTERS - 1) :
          /\ k < Len(segment_pointers)
                \/ (k = 3 /\ Len(segment_pointers) = 3)
          /\ ReadSegmentWith(e3d_segment_page(pointer_table, pages,
                                           segment_pointers, k))

\* parse_all returns for a table of fewer than 2 entries and parses the
\* section of every entry otherwise.
CompleteReadSegment ==
    /\ pc = "parse_attlib_complete"
    /\ Len(segment_pointers) >= 2
    /\ \E k \in 0..(NUM_POINTERS - 1) :
          /\ k < Len(segment_pointers)
          /\ ReadSegmentWith(complete_segment_page(pointer_table, pages,
                                                segment_pointers, k))

\* main of attlib_debug.py inspects segs[0], segs[3], segs[4] and segs[6].
DebugReadSegment ==
    /\ pc = "attlib_debug"
    /\ \E k \in {0, 3, 4, 6} :
          ReadSegmentWith(debug_segment_page(pointer_table, pages,
                                             segment_pointers, k))

NextTable ==
    \/ E3dReadPointers \/ CompleteReadPointers \/ DebugReadPointers
    \/ E3dReadSegment \/ CompleteReadSegment \/ DebugReadSegment

SpecTable == InitTable /\ [][NextTable]_vars

\* A start page of a segment was read from the file.
SegmentPageRead ==
    history = <<"pointers", "page">> /\ result.status = "returned"

\* The offset and the words of the page the pointer word v leads to.
PointedOffset(v) == DATA_REGION_START + v * PAGE_SIZE

\* C21: the start page of a segment is the pointer word of the table taken
\* as a page number, and the page read for it is the words the file holds
\* at DATA_REGION_START + page * PAGE_SIZE, whichever script reads it.
C21_SameBytesForSamePointer ==
    (SegmentPageRead /\ Len(pointer_table) = NUM_POINTERS) =>
        /\ segment_pointers[result.segment + 1]
              = pointer_table[result.segment + 1]
        /\ result.offset = PointedOffset(pointer_table[result.segment + 1])
        /\ result.words
              = words_at(pointer_table, pages,
                         PointedOffset(pointer_table[result.segment + 1]))

\* C21 for the readers of e3d_attribute_parser.py and attlib_debug.py.
DataRegionReadersAgree ==
    pc # "parse_attlib_complete" => C21_SameBytesForSamePointer

\* C22: a table that was read holds exactly NUM_POINTERS entries.
C22_TableHasEightEntries ==
    (history # <<>> /\ segment_pointers # <<>>)
        => Len(segment_pointers) = NUM_POINTERS

\* A table that was read and then used for a segment's start page is whole.
UsedTableHasEightEntries ==
    SegmentPageRead => Len(segment_pointers) = NUM_POINTERS

\* C22 for read_segment_pointers of attlib_debug.py.
DebugTableHasEightEntries ==
    pc = "attlib_debug" => C22_TableHasEightEntries

\* ---------------------------------------------------------------------
\* The definition segment (ATGTDF): load_atgtdf of parse_attlib.py,
\* parse_section and parse_atgtdf_section of parse_attlib_complete.py and
\* _load_attr_types of generate_attr_info.py.

\* What a loader hands back with the map it filled so far.
Defs(status, defs) == [status |-> status, defs |-> defs]

\* AttlibAttrDefinition of parse_attlib.py; default_value is <<>> for None.
AttrDefinition(attr_hash, data_type, default_flag, default_value) ==
    [attr_hash |-> attr_hash, data_type |-> data_type,
     default_flag |-> default_flag, default_value |-> default_value]

\* The locals page_num, words and word_idx of load_atgtdf.
Cursor(page_num, words, word_idx) ==
    [status |-> "returned", page_num |-> page_num, words |-> words,
     word_idx |-> word_idx]

\* if word_idx >= WORDS_PER_PAGE: page_num += 1; word_idx = 0;
\* words = self.read_page(page_num)
next_page_if_used(pgs, cur) ==
    IF cur.word_idx < WORDS_PER_PAGE THEN cur
    ELSE IF attlib_read_page(pgs, <<>>, cur.page_num + 1).read.status
               # "returned"
    THEN Raised("struct.error")
    ELSE Cursor(cur.page_num + 1,
                attlib_read_page(pgs, <<>>, cur.page_num + 1).read.value, 0)

RECURSIVE text_data_loop(_, _, _, _)
\* for _ in range(length): the words of a TEXT default.
text_data_loop(pgs, cur, length, text_data) ==
    IF ~WGt(length, W(0))
    THEN Returned(<<[type |-> "TEXT", data |-> text_data]>>)
    ELSE IF next_page_if_used(pgs, cur).status # "returned"
    THEN Raised("struct.error")
    ELSE text_data_loop(
            pgs,
            Cursor(next_page_if_used(pgs, cur).page_num,
                   next_page_if_used(pgs, cur).words,
                   next_page_if_used(pgs, cur).word_idx + 1),
            WAdd(length, -1),
            Append(text_data,
                   next_page_if_used(pgs, cur).words[
                      next_page_if_used(pgs, cur).word_idx + 1]))

\* The default read at the cursor at, a page further when word_idx is past
\* the page.
default_at(pgs, at, data_type) ==
    IF at.status # "returned" THEN Raised("struct.error")
    ELSE IF data_type = W(4)
    THEN text_data_loop(pgs, Cursor(at.page_num, at.words, at.word_idx + 1),
                        at.words[at.word_idx + 1], <<>>)
    ELSE Returned(<<[type |-> "SCALAR", data |-> at.words[at.word_idx + 1]]>>)

\* AttlibParser._read_default_value: None unless default_flag is 2.
_read_default_value(pgs, cur, data_type, default_flag) ==
    IF default_flag # W(2) THEN Returned(<<>>)
    ELSE default_at(pgs, next_page_if_used(pgs, cur), data_type)

RECURSIVE atgtdf_loop(_, _, _)
\* The record after attr_hash: default_flag and the default, read at the
\* cursor b of the flag word; the caller's cursor stays after the flag.
atgtdf_flag(pgs, attr_hash, data_type, b, dv, defs) ==
    IF dv.status # "returned" THEN Defs(dv.status, defs)
    ELSE atgtdf_loop(pgs, Cursor(b.page_num, b.words, b.word_idx + 1),
                     DictPut(defs, attr_hash,
                             AttrDefinition(attr_hash, data_type,
                                            b.words[b.word_idx + 1],
                                            dv.value)))

\* data_type read at the cursor a, then the flag.
atgtdf_type_at(pgs, attr_hash, a, b, defs) ==
    IF b.status # "returned" THEN Defs(b.status, defs)
    ELSE atgtdf_flag(pgs, attr_hash, a.words[a.word_idx + 1], b,
                     _read_default_value(
                        pgs, Cursor(b.page_num, b.words, b.word_idx + 1),
                        a.words[a.word_idx + 1], b.words[b.word_idx + 1]),
                     defs)

atgtdf_type(pgs, attr_hash, a, defs) ==
    IF a.status # "returned" THEN Defs(a.status, defs)
    ELSE atgtdf_type_at(pgs, attr_hash, a,
                        next_page_if_used(
                           pgs, Cursor(a.page_num, a.words, a.word_idx + 1)),
                        defs)

\* The loops of load_atgtdf.  A page used up with no sentinel is read
\* again for ever: neither page_num nor word_idx changes.
atgtdf_loop(pgs, cur, defs) ==
    IF cur.word_idx >= WORDS_PER_PAGE THEN Defs("hang", defs)
    ELSE IF cur.words[cur.word_idx + 1] = PAGE_SWITCH
    THEN IF attlib_read_page(pgs, <<>>, cur.page_num + 1).read.status
               # "returned"
         THEN Defs("struct.error", defs)
         ELSE atgtdf_loop(
                 pgs,
                 Cursor(cur.page_num + 1,
                        attlib_read_page(pgs, <<>>,
                                         cur.page_num + 1).read.value, 0),
                 defs)
    ELSE IF cur.words[cur.word_idx + 1] = SEGMENT_END
    THEN Defs("returned", defs)
    ELSE IF ~InHashRange(cur.words[cur.word_idx + 1])
    THEN atgtdf_loop(pgs,
                     Cursor(cur.page_num, cur.words, cur.word_idx + 1),
                     defs)
    ELSE atgtdf_type(pgs, cur.words[cur.word_idx + 1],
                     next_page_if_used(
                        pgs,
                        Cursor(cur.page_num, cur.words, cur.word_idx + 1)),
                     defs)

\* load_atgtdf: start_page = self.segment_pointers[0].
load_atgtdf(pgs, pointers) ==
    IF attlib_read_page(pgs, <<>>, pointers[1]).read.status # "returned"
    THEN Defs("struct.error", <<>>)
    ELSE atgtdf_loop(pgs,
                     Cursor(pointers[1],
                            attlib_read_page(pgs, <<>>,
                                             pointers[1]).read.value, 0),
                     <<>>)

MAX_SECTION_PAGES == 1000

RECURSIVE parse_section_loop(_, _, _, _)
\* The words of a page before its first SEGMENT_END or PAGE_SWITCH, and
\* the place of that word (Len(words) + 1 when the page has neither).
first_sentinel(words) ==
    CHOOSE i \in 1..(Len(words) + 1) :
        /\ i <= Len(words) => words[i] \in {SEGMENT_END, PAGE_SWITCH}
        /\ \A k \in 1..(i - 1) : words[k] \notin {SEGMENT_END, PAGE_SWITCH}

\* The words n times over.
repeated(words, n) ==
    [k \in 1..(n * Len(words)) |-> words[((k - 1) % Len(words)) + 1]]

\* for word in words, of parse_section: SEGMENT_END returns, PAGE_SWITCH
\* moves to the next page.  A page with neither leaves page_num as it is:
\* the while loop reads the same words again until total_pages is
\* MAX_SECTION_PAGES, this read and MAX_SECTION_PAGES - total_pages more.
section_page(fpgs, page_num, total_pages, words, all_words) ==
    IF first_sentinel(words) > Len(words)
    THEN all_words
            \o repeated(words, 1 + MAX_SECTION_PAGES - total_pages)
    ELSE IF words[first_sentinel(words)] = SEGMENT_END
    THEN all_words \o SubSeq(words, 1, first_sentinel(words) - 1)
    ELSE parse_section_loop(
            fpgs, page_num + 1, total_pages,
            all_words \o SubSeq(words, 1, first_sentinel(words) - 1))

\* while total_pages < 1000, of parse_section; fpgs are the pages of the
\* file from byte 0.
parse_section_loop(fpgs, page_num, total_pages, all_words) ==
    IF total_pages >= MAX_SECTION_PAGES THEN all_words
    ELSE IF complete_read_page(fpgs, <<>>, page_num).read.value = <<>>
    THEN all_words
    ELSE section_page(fpgs, page_num, total_pages + 1,
                      complete_read_page(fpgs, <<>>, page_num).read.value,
                      all_words)

parse_section(fpgs, start_page) ==
    parse_section_loop(fpgs, start_page, 0, <<>>)

RECURSIVE digits27(_, _)
\* for _ in range(6): if temp == 0: break;
\* chars.append(base27_chars[temp % 27]); temp //= 27
digits27(temp, n) ==
    IF n = 0 \/ temp = W(0) THEN <<>>
    ELSE <<IF WMod(temp, 27) = 0 THEN 32 ELSE 64 + WMod(temp, 27)>>
            \o digits27(WDiv(temp, 27), n - 1)

reversed(s) == [i \in 1..Len(s) |-> s[Len(s) + 1 - i]]

RECURSIVE lstrip(_)
lstrip(s) == IF s # <<>> /\ Head(s) = 32 THEN lstrip(Tail(s)) ELSE s

\* str.strip() of a string of spaces and letters.
strip(s) == reversed(lstrip(reversed(lstrip(s))))

RECURSIVE decode_27_words(_)
\* result.extend(reversed(chars)) for every word.
decode_27_words(encoded_words) ==
    IF encoded_words = <<>> THEN <<>>
    ELSE reversed(digits27(Head(encoded_words), 6))
            \o decode_27_words(Tail(encoded_words))

\* AttlibCompleteParser.decode_27_base
decode_27_base(encoded_words) == strip(decode_27_words(encoded_words))

\* words[i:j] of Python, i and j counted from 0.
Slice(words, i, j) ==
    SubSeq(words, i + 1, IF j > Len(words) THEN Len(words) ELSE j)

\* The entry of attribute_definitions.
attr_data(attr_hash, data_type, default_flag, default_value) ==
    [hash |-> attr_hash, data_type |-> data_type,
     default_flag |-> default_flag, default_value |-> default_value]

RECURSIVE atgtdf_section_loop(_, _, _)
\* The default of the record whose flag is at position i - 1 (from 0), and
\* the loop after it.
section_default(words, attr_hash, i, defs) ==
    IF words[i] # W(2) \/ i >= Len(words)
    THEN atgtdf_section_loop(
            words, i,
            DictPut(defs, attr_hash,
                    attr_data(attr_hash, words[i - 1], words[i], <<>>)))
    ELSE IF words[i - 1] = W(4)
    THEN atgtdf_section_loop(
            words, i + 1 + WInt(words[i + 1]),
            DictPut(defs, attr_hash,
                    attr_data(attr_hash, words[i - 1], words[i],
                              <<decode_27_base(
                                   Slice(words, i + 1,
                                         i + 1 + WInt(words[i + 1])))>>)))
    ELSE atgtdf_section_loop(
            words, i + 1,
            DictPut(defs, attr_hash,
                    attr_data(attr_hash, words[i - 1], words[i],
                              <<words[i + 1]>>)))

\* while i < len(words) - 2, of parse_atgtdf_section; i counts from 0.
atgtdf_section_loop(words, i, defs) ==
    IF i >= Len(words) - 2 THEN defs
    ELSE IF ~InHashRange(words[i + 1])
    THEN atgtdf_section_loop(words, i + 1, defs)
    ELSE IF i + 1 >= Len(words) - 1 THEN defs
    ELSE section_default(words, words[i + 1], i + 3, defs)

parse_atgtdf_section(words) == atgtdf_section_loop(words, 0, <<>>)

\* DATA_TYPE_MAP of generate_attr_info.py, for the codes 1..10.
DATA_TYPE_MAP ==
    <<"INTEGER", "DOUBLE", "BOOL", "STRING", "WORD", "ELEMENT", "POSITION",
      "ORIENTATION", "DIRECTION", "INTVEC">>

RECURSIVE attr_types_loop(_, _, _)
\* for i in range(len(self.words) - 2), of _load_attr_types: a hash that
\* already has a type keeps it.
attr_types_loop(words, i, hash_to_type) ==
    IF i >= Len(words) - 2 THEN hash_to_type
    ELSE IF /\ InHashRange(words[i + 1])
            /\ WLe(W(1), words[i + 2]) /\ WLe(words[i + 2], W(10))
            /\ words[i + 1] \notin DOMAIN hash_to_type
    THEN attr_types_loop(words, i + 1,
                         DictPut(hash_to_type, words[i + 1],
                                 DATA_TYPE_MAP[WInt(words[i + 2])]))
    ELSE attr_types_loop(words, i + 1, hash_to_type)

_load_attr_types(words) == attr_types_loop(words, 0, <<>>)

RECURSIVE Flat(_)
\* self.words of generate_attr_info.py: every word of the data region.
Flat(pgs) == IF pgs = <<>> THEN <<>> ELSE Head(pgs) \o Flat(Tail(pgs))

\* Inputs: streams of 1..MaxDefRecords records [hash][data_type]
\* [default_flag] and, with flag 2, a scalar default that is no hash.
MaxDefRecords == 2
DefRecords ==
    [hash : {W(PIPE), W(SITE)}, data_type : {W(1), W(3)},
     default : {<<>>, <<W(5)>>}]
RecordLists == UNION {[1..n -> DefRecords] : n \in 1..MaxDefRecords}

RecordWords(rec) ==
    <<rec.hash, rec.data_type, IF rec.default = <<>> THEN W(1) ELSE W(2)>>
       \o rec.default

RECURSIVE Stream(_)
Stream(recs) ==
    IF recs = <<>> THEN <<>>
    ELSE RecordWords(Head(recs)) \o Stream(Tail(recs))

\* a words that are no hashes, before the first record.
Padding(a) == [i \in 1..a |-> W(7)]

\* The words s then SEGMENT_END to the end of the last page.
Paged(s) ==
    [p \in 1..((Len(s) \div WORDS_PER_PAGE) + 1) |->
        [i \in 1..WORDS_PER_PAGE |->
            IF (p - 1) * WORDS_PER_PAGE + i <= Len(s)
            THEN s[(p - 1) * WORDS_PER_PAGE + i] ELSE SEGMENT_END]]

\* The words s on pages that each end with PAGE_SWITCH, the last one with
\* SEGMENT_END.
SwitchPaged(s) ==
    [p \in 1..((Len(s) \div (WORDS_PER_PAGE - 1)) + 1) |->
        [i \in 1..WORDS_PER_PAGE |->
            IF i < WORDS_PER_PAGE
               /\ (p - 1) * (WORDS_PER_PAGE - 1) + i <= Len(s)
            THEN s[(p - 1) * (WORDS_PER_PAGE - 1) + i]
            ELSE IF i = WORDS_PER_PAGE
                    /\ p < (Len(s) \div (WORDS_PER_PAGE - 1)) + 1
            THEN PAGE_SWITCH ELSE SEGMENT_END]]

\* The files a script may be given for the records recs.
Layouts(script, recs) ==
    IF script = "parse_attlib_complete" THEN {SwitchPaged(Stream(recs))}
    ELSE {Paged(Padding(a) \o Stream(recs)) : a \in 0..(WORDS_PER_PAGE - 1)}

\* The table of a file whose definition segment starts at data page 0, to
\* the script's own reading of a pointer word.
TableOf(script) ==
    [i \in 1..NUM_POINTERS |->
        IF script = "parse_attlib_complete" THEN DATA_REGION_START ELSE 0]

InitDefs ==
    /\ pc \in {"parse_attlib", "parse_attlib_complete", "generate_attr_info"}
    /\ pages \in UNION {Layouts(pc, recs) : recs \in RecordLists}
    /\ pointer_table = TableOf(pc)
    /\ segment_pointers =
          IF pc = "parse_attlib_complete"
          THEN read_section_pointers(pointer_table).value
          ELSE pointer_table
    /\ result = None
    /\ CodecIdle /\ CacheIdle /\ SourceIdle

DefsUnchanged ==
    UNCHANGED <<pc, pages, pointer_table, segment_pointers, codecVars,
                cacheVars, hash_to_combined_id, noun_attr_bindings,
                page_cache>>

\* A loader ran: attr_definitions is the map it filled.
DefsLoaded(status, defs) ==
    /\ history = <<>>
    /\ attr_definitions' = defs
    /\ result' = [status |-> status]
    /\ history' = <<"defs">>
    /\ DefsUnchanged

LoadAtgtdf ==
    /\ pc = "parse_attlib"
    /\ \E l \in {load_atgtdf(pages, segment_pointers)} :
          DefsLoaded(l.status, l.defs)

\* parse_all: parse_section(f, self.section_pointers[1], "ATGTDF"), then
\* parse_atgtdf_section of its words.
ParseAtgtdfSection ==
    /\ pc = "parse_attlib_complete"
    /\ DefsLoaded("returned",
                  parse_atgtdf_section(
                     parse_section(file_pages(pointer_table, pages),
                                   segment_pointers[2])))

LoadAttrTypes ==
    /\ pc = "generate_attr_info"
    /\ DefsLoaded("returned", _load_attr_types(Flat(pages)))

NextDefs == LoadAtgtdf \/ ParseAtgtdfSection \/ LoadAttrTypes

SpecDefs == InitDefs /\ [][NextDefs]_vars

\* The last record of recs with the hash h.
LastRecord(recs, h) ==
    recs[CHOOSE i \in 1..Len(recs) :
            /\ recs[i].hash = h
            /\ \A j \in (i + 1)..Len(recs) : recs[j].hash # h]

\* The definition kept for h is that of the record rec: its type and, where
\* the script keeps one, its default.
KeptIs(h, rec) ==
    /\ h \in DOMAIN attr_definitions
    /\ IF pc = "generate_attr_info"
       THEN attr_definitions[h] = DATA_TYPE_MAP[WInt(rec.data_type)]
       ELSE /\ attr_definitions[h].data_type = rec.data_type
            /\ attr_definitions[h].default_value =
                  IF rec.default = <<>> THEN <<>>
                  ELSE IF pc = "parse_attlib"
                  THEN <<[type |-> "SCALAR", data |-> rec.default[1]]>>
                  ELSE rec.default

\* The segment of the file was parsed to its SEGMENT_END.
DefsParsed == history = <<"defs">> /\ result.status = "returned"

\* C25: after a definition segment is parsed there is one definition per
\* hash of the stream, and it is the one of the last record with that hash
\* in stream order.
C25_LastDefinitionWins ==
    DefsParsed =>
        \A recs \in RecordLists :
            pages \in Layouts(pc, recs) =>
                \A i \in 1..Len(recs) :
                    KeptIs(recs[i].hash, LastRecord(recs, recs[i].hash))

\* C25 for load_atgtdf and parse_atgtdf_section.
DictLoadersKeepLast == pc # "generate_attr_info" => C25_LastDefinitionWins

\* _load_attr_types keeps the first record of a hash.
AttrTypesKeepFirst ==
    (DefsParsed /\ pc = "generate_attr_info") =>
        \A recs \in RecordLists :
            pages \in Layouts(pc, recs) =>
                \A i \in 1..Len(recs) :
                    (\A j \in 1..(i - 1) : recs[j].hash # recs[i].hash)
                        => KeptIs(recs[i].hash, recs[i])

\* ---------------------------------------------------------------------
\* AttlibDataSource: the binding loader and the definition lookup.
\* An Optional value is <<>> for None and <<v>> for v.

RECURSIVE atnain_loop(_, _, _, _, _, _, _)
\* The loops of _load_atnain: triples [AttrID, NounID, Offset], on pages of
\* wpp words.
atnain_loop(wpp, pgs, page_num, words, word_idx, found_in_page, bindings) ==
    IF word_idx + 2 >= wpp
    THEN IF found_in_page = 0
         THEN [status |-> "returned", noun_attr_bindings |-> bindings]
         ELSE atnain_loop(wpp, pgs, page_num + 1,
                          _read_page(pgs, page_num + 1), 0, 0, bindings)
    ELSE IF word_idx + 2 >= Len(words)
    THEN [status |-> "IndexError", noun_attr_bindings |-> bindings]
    ELSE LET attr_id == words[word_idx + 1]
             noun_id == words[word_idx + 2]
             offset  == words[word_idx + 3]
         IN  IF attr_id = PAGE_SWITCH
             THEN atnain_loop(wpp, pgs, page_num + 1,
                              _read_page(pgs, page_num + 1), 0,
                              found_in_page, bindings)
             ELSE IF attr_id = SEGMENT_END
             THEN [status |-> "returned", noun_attr_bindings |-> bindings]
             ELSE IF InHashRange(attr_id)
             THEN atnain_loop(wpp, pgs, page_num, words, word_idx + 3,
                              found_in_page + 1,
                              Append(bindings,
                                     [noun_id |-> noun_id,
                                      attr_id |-> attr_id,
                                      offset  |-> offset]))
             ELSE atnain_loop(wpp, pgs, page_num, words, word_idx + 3,
                              found_in_page, bindings)

\* start_page = self.segment_pointers[3]; wpp is ATTLIB_WORDS_PER_PAGE.
load_atnain_paged(wpp, pgs, pointers) ==
    IF Len(pointers) < 4
    THEN [status |-> "returned", noun_attr_bindings |-> <<>>]
    ELSE atnain_loop(wpp, pgs, pointers[4], _read_page(pgs, pointers[4]),
                     0, 0, <<>>)

\* _load_atnain at the page size of the other loaders.
_load_atnain(pgs, pointers) ==
    load_atnain_paged(WORDS_PER_PAGE, pgs, pointers)

\* words[i] if i < len(words) else 0, i counted from 0.
WordOrZero(words, i) == IF i < Len(words) THEN words[i + 1] ELSE W(0)

AttlibAttrDefinition(attr_hash, data_type, default_flag) ==
    [attr_hash |-> attr_hash, data_type |-> data_type,
     default_flag |-> default_flag]

\* _check_slot: the first idx = slot + drift, drift in range(-5, 5), that
\* holds attr_id; no test of the data type.
_check_slot(pgs, page_num, slot, attr_id) ==
    LET words == _read_page(pgs, page_num)
        hits  == {drift \in -5..4 :
                     /\ 0 <= slot + drift
                     /\ slot + drift < Len(words)
                     /\ words[slot + drift + 1] = attr_id}
    IN  IF hits = {} THEN <<>>
        ELSE LET idx == slot + CHOOSE d \in hits : \A e \in hits : d <= e
             IN  <<AttlibAttrDefinition(attr_id, WordOrZero(words, idx + 1),
                                        WordOrZero(words, idx + 2))>>

\* The pages _scan_for_attr adds to the segment start pages.
CORE_PAGES ==
    {1463, 1688, 1703, 1860, 1865, 1873, 1923, 1868, 1869, 1872, 1874,
     1875, 1879, 1882, 1883, 1885, 1894, 1899, 1904, 1905, 1907, 1909,
     1910, 1911, 1915, 1916, 1917, 1919}

RECURSIVE sorted(_)
\* sorted(list(set(...))) of a set of integers.
sorted(S) ==
    IF S = {} THEN <<>>
    ELSE LET m == CHOOSE x \in S : \A y \in S : x <= y
         IN  <<m>> \o sorted(S \ {m})

RECURSIVE insert_all(_, _)
\* The sorted sequence seq with the integers of S, none of them in it,
\* put in their places.
insert_all(seq, S) ==
    IF S = {} THEN seq
    ELSE LET x == CHOOSE y \in S : TRUE
             k == Cardinality({j \in DOMAIN seq : seq[j] < x})
         IN  insert_all(SubSeq(seq, 1, k) \o <<x>>
                           \o SubSeq(seq, k + 1, Len(seq)),
                        S \ {x})

SortedCorePages == sorted(CORE_PAGES)

\* sorted(list(set(self.segment_pointers + [...]))): the hard-coded pages
\* in order, with the segment pointers in their places.
pages_to_scan(pointers) ==
    insert_all(SortedCorePages,
               {pointers[k] : k \in 1..Len(pointers)} \ CORE_PAGES)

\* The first i with words[i] == attr_id and 1 <= words[i + 1] <= 8.
scan_page(words, attr_id) ==
    LET hits == {i \in 0..(Len(words) - 1) :
                    /\ words[i + 1] = attr_id
                    /\ WLe(W(1), WordOrZero(words, i + 1))
                    /\ WLe(WordOrZero(words, i + 1), W(8))}
    IN  IF hits = {} THEN <<>>
        ELSE LET i == CHOOSE h \in hits : \A g \in hits : h <= g
             IN  <<AttlibAttrDefinition(attr_id, WordOrZero(words, i + 1),
                                        WordOrZero(words, i + 2))>>

RECURSIVE scan_loop(_, _, _, _)
\* for page_num in pages_to_scan, from position k on: the position of the
\* page where the attribute was found (past the end when on none) and the
\* definition found there.
scan_loop(pgs, to_scan, k, attr_id) ==
    IF k > Len(to_scan) THEN [attr_def |-> <<>>, at |-> k]
    ELSE IF to_scan[k] = 0 THEN scan_loop(pgs, to_scan, k + 1, attr_id)
    ELSE LET found == scan_page(_read_page(pgs, to_scan[k]), attr_id)
         IN  IF found # <<>> THEN [attr_def |-> found, at |-> k]
             ELSE scan_loop(pgs, to_scan, k + 1, attr_id)

\* The pages read of to_scan when the scan stopped at position at: page 0
\* is skipped.
pages_read(to_scan, at) ==
    LET Read(page_num) == page_num # 0
    IN  SelectSeq(SubSeq(to_scan, 1,
                         IF at > Len(to_scan) THEN Len(to_scan) ELSE at),
                  Read)

\* What the scan returns, with the pages it read.
scanned(to_scan, scan) ==
    [attr_def |-> scan.attr_def, reads |-> pages_read(to_scan, scan.at)]

scan_pages(pgs, to_scan, attr_id) ==
    scanned(to_scan, scan_loop(pgs, to_scan, 1, attr_id))

_scan_for_attr(pgs, pointers, attr_id) ==
    scan_pages(pgs, pages_to_scan(pointers), attr_id)

\* What a lookup did: the definition found (or <<>>), attr_definitions
\* after it, the sources asked in order, the pages the slot checks read and
\* the pages the scan read.
Lookup(attr_def, defs, steps, slot_reads, scan_reads) ==
    [attr_def |-> attr_def,
     attr_definitions |->
        IF attr_def = <<>> THEN defs
        ELSE DictPut(defs, attr_def[1].attr_hash, attr_def[1]),
     steps |-> steps, slot_reads |-> slot_reads, scan_reads |-> scan_reads]

\* return self._scan_for_attr(attr_id), after steps and slot_reads.
after_scan(defs, steps, slot_reads, scan) ==
    Lookup(scan.attr_def, defs, Append(steps, "scan"), slot_reads,
           scan.reads)

\* The two slot checks of get_attr_definition, on target_page and on
\* target_page_rel, and the scan after them.
after_slots(pgs, pointers, defs, attr_id, target_page, target_page_rel, first, second) ==
    IF first # <<>>
    THEN Lookup(first, defs, <<"definitions", "index", "slot">>,
                <<target_page>>, <<>>)
    ELSE IF second # <<>>
    THEN Lookup(second, defs, <<"definitions", "index", "slot", "slot">>,
                <<target_page, target_page_rel>>, <<>>)
    ELSE after_scan(defs, <<"definitions", "index", "slot", "slot">>,
                    <<target_page, target_page_rel>>,
                    _scan_for_attr(pgs, pointers, attr_id))

\* The lookup through the index entry combined_id.
by_index(pgs, pointers, defs, attr_id, target_page, slot) ==
    after_slots(pgs, pointers, defs, attr_id, target_page,
                pointers[1] + target_page,
                _check_slot(pgs, target_page, slot, attr_id),
                _check_slot(pgs, pointers[1] + target_page, slot, attr_id))

get_attr_definition(pgs, pointers, defs, index, attr_id) ==
    IF attr_id \in DOMAIN defs
    THEN Lookup(<<defs[attr_id]>>, defs, <<"definitions">>, <<>>, <<>>)
    ELSE IF attr_id \notin DOMAIN index
    THEN after_scan(defs, <<"definitions", "index">>, <<>>,
                    _scan_for_attr(pgs, pointers, attr_id))
    ELSE by_index(pgs, pointers, defs, attr_id,
                  WInt(WDiv(index[attr_id], WORDS_PER_PAGE)),
                  WMod(index[attr_id], WORDS_PER_PAGE))

\* ---------------------------------------------------------------------
\* E3DAttributeParser: get_att_dets and the value reader.

\* AttlibCache.get as a function: the entry found (or <<>>) and
\* access_order after it.
AttlibCache_get(c, order, attr_id) ==
    IF attr_id \in DOMAIN c
    THEN [cached |-> <<c[attr_id]>>,
          access_order |-> Append(list_remove(order, attr_id), attr_id)]
    ELSE [cached |-> <<>>, access_order |-> order]

\* AttlibCache.put as a function: cache and access_order after it, and the
\* id it evicted (or <<>>).
AttlibCache_put(max, c, order, metadata) ==
    IF metadata.attr_id \in DOMAIN c
    THEN [cache |-> c, access_order |-> order, evicted |-> <<>>]
    ELSE IF Cardinality(DOMAIN c) >= max
    THEN [cache |-> DictPut(DictDel(c, Head(order)), metadata.attr_id,
                            metadata),
          access_order |-> Append(Tail(order), metadata.attr_id),
          evicted |-> <<Head(order)>>]
    ELSE [cache |-> DictPut(c, metadata.attr_id, metadata),
          access_order |-> Append(order, metadata.attr_id),
          evicted |-> <<>>]

\* DataType(data_type) if data_type is a member's value (0..8), else
\* DataType.UNKNOWN = 0.
DataType(data_type) == IF WLe(data_type, W(8)) THEN WInt(data_type) ELSE 0

\* lengths.get(data_type, 4)
_get_type_length(data_type) ==
    IF data_type = W(4) THEN 0
    ELSE IF data_type \in {W(6), W(7)} THEN 12
    ELSE IF data_type = W(8) THEN 36
    ELSE 4

RECURSIVE binding_offset(_, _, _, _)
\* The offset of the first binding of (noun_id, attr_id), from position k
\* on; 0 when there is none.
binding_offset(bindings, k, noun_id, attr_id) ==
    IF k > Len(bindings) THEN W(0)
    ELSE IF bindings[k].noun_id = noun_id /\ bindings[k].attr_id = attr_id
    THEN bindings[k].offset
    ELSE binding_offset(bindings, k + 1, noun_id, attr_id)

AttributeMetadata(attr_id, data_type, offset, length) ==
    [attr_id |-> attr_id, data_type |-> data_type, offset |-> offset,
     length |-> length]

\* What get_att_dets returns (value, <<>> for None) and leaves behind.
Dets(value, c, order, defs, steps, slot_reads, scan_reads, evicted) ==
    [value |-> value, cache |-> c, access_order |-> order,
     attr_definitions |-> defs, steps |-> steps, slot_reads |-> slot_reads,
     scan_reads |-> scan_reads, evicted |-> evicted]

\* Step 4 of get_att_dets: the metadata returned and the cache after the
\* put p, after the lookup l.
after_put(metadata, l, p) ==
    Dets(<<metadata>>, p.cache, p.access_order, l.attr_definitions,
         <<"cache">> \o l.steps, l.slot_reads, l.scan_reads, p.evicted)

\* Step 4 of get_att_dets: self.cache.put(metadata).
put_metadata(max, c, order, l, metadata) ==
    after_put(metadata, l, AttlibCache_put(max, c, order, metadata))

\* Steps 2 and 3 of get_att_dets after the lookup l: None without a
\* definition, else the offset of the binding and the metadata.
after_lookup(bindings, max, c, order, attr_id, noun_id, l) ==
    IF l.attr_def = <<>>
    THEN Dets(<<>>, c, order, l.attr_definitions, <<"cache">> \o l.steps,
              l.slot_reads, l.scan_reads, <<>>)
    ELSE put_metadata(
            max, c, order, l,
            AttributeMetadata(
               attr_id, DataType(l.attr_def[1].data_type),
               IF noun_id = <<>> THEN W(0)
               ELSE binding_offset(bindings, 1, noun_id[1], attr_id),
               _get_type_length(l.attr_def[1].data_type)))

\* Step 1 of get_att_dets after got = self.cache.get(attr_id).
after_get(pgs, pointers, defs, index, bindings, max, c, attr_id, noun_id, got) ==
    IF got.cached # <<>>
       /\ (noun_id = <<>> \/ got.cached[1].offset # W(0))
    THEN Dets(got.cached, c, got.access_order, defs, <<"cache">>, <<>>,
              <<>>, <<>>)
    ELSE after_lookup(bindings, max, c, got.access_order, attr_id, noun_id,
                      get_attr_definition(pgs, pointers, defs, index,
                                          attr_id))

\* get_att_dets(attr_id, noun_id); noun_id is <<>> for None.
get_att_dets(pgs, pointers, defs, index, bindings, max, c, order, attr_id, noun_id) ==
    after_get(pgs, pointers, defs, index, bindings, max, c, attr_id,
              noun_id, AttlibCache_get(c, order, attr_id))

\* What the value reader returns: a value of a kind (its words), None, or
\* an exception.
Value(kind, words) == [status |-> "value", kind |-> kind, words |-> words]
NoValue == [status |-> "none", kind |-> "none", words |-> <<>>]
ValueError == [status |-> "struct.error", kind |-> "none", words |-> <<>>]

\* The word as it is, an unsigned integer.
Unsigned(word) == word

\* struct.unpack(">i"): the word as a signed 32-bit integer.
Signed(word) ==
    IF word[1] >= 2^15 THEN <<word[1] - Limb, word[2]>> ELSE word

RECURSIVE Float(_, _, _)
\* The float (-1)^sign * mant * 2^exp, mant odd or 0: one record a value.
Float(sign, mant, exp) ==
    IF mant = 0
    THEN [class |-> "finite", sign |-> sign, mant |-> 0, exp |-> 0]
    ELSE IF mant % 2 = 0 THEN Float(sign, mant \div 2, exp + 1)
    ELSE [class |-> "finite", sign |-> sign, mant |-> mant, exp |-> exp]

\* struct.unpack(">I") where a float is expected: the word, not a float.
unpack_I(word) == word

\* struct.unpack(">f"): the IEEE 754 single the word holds (1 sign bit, 8
\* exponent bits biased by 127, 23 fraction bits), exact as a Python float.
unpack_f(word) ==
    LET sign     == word[1] \div 2^15
        exponent == (word[1] % 2^15) \div 2^7
        fraction == (word[1] % 2^7) * Limb + word[2]
    IN  IF exponent = 255
        THEN [class |-> IF fraction = 0 THEN "inf" ELSE "nan",
              sign |-> sign, mant |-> fraction, exp |-> 0]
        ELSE IF exponent = 0 THEN Float(sign, fraction, -149)
        ELSE Float(sign, 2^23 + fraction, exponent - 150)

\* A placeholder test that takes 127 for printable.
TextCharUpTo127(word) ==
    IF WLe(W(32), word) /\ WLe(word, W(127)) THEN word ELSE W(63)

\* chr(word) if 32 <= word < 127 else "?"
TextChar(word) ==
    IF WLe(W(32), word) /\ WLt(word, W(127)) THEN word ELSE W(63)

\* read_attribute_value(page_data, offset, data_type): page_data is a
\* buffer of whole words, offset a byte offset (a multiple of 4).
read_attribute_value(page_data, offset, data_type) ==
    IF ~WLt(offset, W(4 * Len(page_data))) THEN NoValue
    ELSE LET k == WInt(offset) \div 4
             word == page_data[k + 1]
             avail == Len(page_data) - (k + 1)
         IN  IF data_type = 1
             THEN Value("bool", <<IF word = W(0) THEN W(0) ELSE W(1)>>)
             ELSE IF data_type = 3 THEN Value("int", <<Signed(word)>>)
             ELSE IF data_type = 2 THEN Value("float", <<unpack_f(word)>>)
             ELSE IF data_type = 5 THEN Value("uint", <<word>>)
             ELSE IF data_type \in {6, 7}
             THEN IF avail < 2 THEN ValueError
                  ELSE Value("xyz", <<unpack_f(word),
                                      unpack_f(page_data[k + 2]),
                                      unpack_f(page_data[k + 3])>>)
             ELSE IF data_type = 4
             THEN LET n == IF WLt(word, W(avail)) THEN WInt(word)
                           ELSE avail
                  IN  Value("text",
                            [i \in 1..n |-> TextChar(page_data[k + 1 + i])])
             ELSE Value("uint", <<word>>)

\* get_attribute_value_by_ref after the database lookup: element is <<>>
\* (not found) or <<[noun_id, page_data]>>.  dets is the get_att_dets it
\* ran, <<>> if it ran none.
Resolved(returned, decoded, dets) ==
    [returned |-> returned, decoded |-> decoded, dets |-> dets]

\* The value v read, after the call d of get_att_dets.
after_read(d, v) == Resolved(v, v.status # "none", <<d>>)

\* Steps 2 and 3 of get_attribute_value_by_ref, after metadata =
\* get_att_dets(attr_id, noun_id).
after_dets(page_data, d) ==
    IF d.value = <<>> THEN Resolved(NoValue, FALSE, <<d>>)
    ELSE IF d.value[1].offset = W(0) THEN Resolved(NoValue, FALSE, <<d>>)
    ELSE after_read(d, read_attribute_value(
                          page_data, WMulAdd(d.value[1].offset, 4, 0),
                          d.value[1].data_type))

get_attribute_value_by_ref(pgs, pointers, defs, index, bindings, max, c, order, element, attr_id) ==
    IF element = <<>> THEN Resolved(NoValue, FALSE, <<>>)
    ELSE after_dets(element[1].page_data,
                    get_att_dets(pgs, pointers, defs, index, bindings, max,
                                 c, order, attr_id,
                                 <<element[1].noun_id>>))

\* ---------------------------------------------------------------------
\* The parser at work: E3DAttributeParser(attlib_path) on a file of the
\* family below, then calls of get_att_dets and
\* get_attribute_value_by_ref.  The file never changes, so the page cache
\* of the data source (copies of its pages) is left out of these states.

H == W(PIPE)
G == W(SITE)
X == W(MIN_HASH)
Attrs == {H, G, X}
\* noun_id: None, or one of two nouns.
Noun42 == W(42)
Noun9 == W(9)
NounArgs == {<<>>, <<Noun42>>, <<Noun9>>}

\* The segment pointer table of the end-to-end file.
EndToEndPointers == <<3, 4, 5, 6, 6, 6, 6, 6>>

Filler == <<SEGMENT_END, SEGMENT_END, SEGMENT_END>>
\* Page 3: one definition record [hash, data type, default flag]; Integer,
\* or a data type no DataType member has.
DefinitionPages == {<<H, W(3), W(1)>>, <<H, W(9), W(1)>>}
\* Pages 4..6, the start pages of the index segments (page 6 of the
\* bindings too): nothing, or one record of three words.
Page4s == {Filler, <<H, Noun42, W(5)>>, <<X, W(1), W(0)>>}
Page5s == {Filler, <<G, W(6), W(0)>>}
Page6s == {Filler, <<H, Noun42, W(5)>>, <<H, Noun9, W(5)>>}
ResolveFiles ==
    {f \in {<<Filler, Filler, Filler, p3, p4, p5, p6, Filler>> :
               p3 \in DefinitionPages, p4 \in Page4s, p5 \in Page5s,
               p6 \in Page6s} :
        /\ _load_atgtix(f, EndToEndPointers).status = "returned"
        /\ _load_atnain(f, EndToEndPointers).status = "returned"}

\* What the database finds for a reference: the element's noun and its
\* bytes from its header [ref0, ref1, noun_id] on, as words.
\* The word that holds the integer n, -2^16 <= n < 2^16, in two's
\* complement.
Packed(n) == IF n < 0 THEN <<Limb - 1, Limb + n>> ELSE W(n)

Element(noun_id, tail) ==
    [noun_id |-> noun_id, page_data |-> <<W(1), W(2), noun_id>> \o tail]
Elements ==
    {Element(n, t) : n \in {Noun42, Noun9},
                     t \in {<<W(0), W(3), Packed(-7)>>, <<W(3)>>}}

MaxResolveEntries == 2

\* The calls made of one parser.
MaxCalls == 4

\* history: the number of calls made, the attributes in the order of their
\* last access (cache hit or insertion), the call of get_att_dets last answered for each attribute
\* with its answer, and for the attributes evicted since, that call and
\* answer as they were at the eviction.
NoHistory ==
    [calls |-> 0, recency |-> <<>>, returned |-> [a \in Attrs |-> <<>>],
     before_eviction |-> [a \in Attrs |-> <<>>]]

\* E3DAttributeParser(attlib_path) on one of the files.
Constructed(files) ==
    /\ pc = "constructed"
    /\ pages \in files
    /\ pointer_table = EndToEndPointers
    /\ segment_pointers = EndToEndPointers
    /\ hash_to_combined_id =
          _load_atgtix(pages, segment_pointers).hash_to_combined_id
    /\ noun_attr_bindings =
          _load_atnain(pages, segment_pointers).noun_attr_bindings
    /\ attr_definitions = <<>>
    /\ page_cache = <<>>
    /\ max_entries \in 1..MaxResolveEntries
    /\ cache = <<>> /\ access_order = <<>>
    /\ result = None
    /\ history = NoHistory
    /\ CodecIdle

InitResolve == Constructed(ResolveFiles)

\* The first attribute of recency that is cached: the least recently
\* accessed entry.
RECURSIVE LeastRecent(_, _)
LeastRecent(recency, c) ==
    IF recency = <<>> THEN <<>>
    ELSE IF Head(recency) \in DOMAIN c THEN <<Head(recency)>>
    ELSE LeastRecent(Tail(recency), c)

\* What a call of get_att_dets did, with what held before it.
CallFacts(attr_id, noun_id, d) ==
    [attr_id |-> attr_id, noun_id |-> noun_id, value |-> d.value,
     steps |-> d.steps, slot_reads |-> d.slot_reads,
     scan_reads |-> d.scan_reads, evicted |-> d.evicted,
     cached_before |->
        IF attr_id \in DOMAIN cache THEN <<cache[attr_id]>> ELSE <<>>,
     defined_before |-> attr_id \in DOMAIN attr_definitions,
     entries_before |-> DOMAIN cache,
     least_recent_before |-> LeastRecent(history.recency, cache),
     returned_before_eviction |->
        IF attr_id \in DOMAIN cache THEN <<>>
        ELSE history.before_eviction[attr_id]]

\* history after the call.
Remember(attr_id, noun_id, d) ==
    LET accessed == attr_id \in DOMAIN cache \/ attr_id \in DOMAIN d.cache
        returned == [history.returned EXCEPT ![attr_id] =
                        IF d.value = <<>> THEN @
                        ELSE <<[noun_id |-> noun_id, value |-> d.value]>>]
    IN  [calls |-> history.calls + 1,
         recency |->
            IF accessed
            THEN Append(list_remove(history.recency, attr_id), attr_id)
            ELSE history.recency,
         returned |-> returned,
         before_eviction |->
            [a \in Attrs |->
                IF d.evicted # <<>> /\ a = d.evicted[1] THEN returned[a]
                ELSE IF a = attr_id /\ attr_id \in DOMAIN d.cache THEN <<>>
                ELSE history.before_eviction[a]]]

ResolveUnchanged ==
    UNCHANGED <<pages, pointer_table, segment_pointers, hash_to_combined_id,
                noun_attr_bindings, page_cache, max_entries, codecVars>>

\* The state a get_att_dets leaves.
AfterDets(attr_id, noun_id, d) ==
    /\ cache' = d.cache
    /\ access_order' = d.access_order
    /\ attr_definitions' = d.attr_definitions
    /\ history' = Remember(attr_id, noun_id, d)

GetAttDets ==
    /\ history.calls < MaxCalls
    /\ \E attr_id \in Attrs, noun_id \in NounArgs :
        \E d \in {get_att_dets(pages, segment_pointers, attr_definitions,
                              hash_to_combined_id, noun_attr_bindings,
                              max_entries, cache, access_order, attr_id,
                              noun_id)} :
            /\ AfterDets(attr_id, noun_id, d)
            /\ result' = CallFacts(attr_id, noun_id, d)
            /\ pc' = "get_att_dets"
            /\ ResolveUnchanged

GetAttributeValueByRef ==
    /\ history.calls < MaxCalls
    /\ \E element \in {<<>>} \cup {<<e>> : e \in Elements}, attr_id \in Attrs :
        \E r \in {get_attribute_value_by_ref(
                    pages, segment_pointers, attr_definitions,
                    hash_to_combined_id, noun_attr_bindings, max_entries,
                    cache, access_order, element, attr_id)} :
            /\ IF r.dets = <<>>
               THEN /\ UNCHANGED <<cache, access_order, attr_definitions>>
                    /\ history' = [history EXCEPT !.calls = @ + 1]
               ELSE AfterDets(attr_id, <<element[1].noun_id>>, r.dets[1])
            /\ result' =
                  [attr_id |-> attr_id, element |-> element,
                   returned |-> r.returned, decoded |-> r.decoded,
                   call |-> IF r.dets = <<>> THEN <<>>
                            ELSE <<CallFacts(attr_id,
                                             <<element[1].noun_id>>,
                                             r.dets[1])>>]
            /\ pc' = "resolved"
            /\ ResolveUnchanged

NextResolve == GetAttDets \/ GetAttributeValueByRef

SpecResolve == InitResolve /\ [][NextResolve]_vars

\* The parser asked for metadata only.
NextLookup == GetAttDets

SpecLookup == InitResolve /\ [][NextLookup]_vars

\* ---------------------------------------------------------------------
\* Claims about the cache in front of the lookup.

\* What get_att_dets(attr_id, noun_id) returns from an empty cache.
Uncached(attr_id, noun_id) ==
    get_att_dets(pages, segment_pointers, attr_definitions,
                 hash_to_combined_id, noun_attr_bindings, max_entries,
                 <<>>, <<>>, attr_id, noun_id).value

\* An insertion into a full cache evicts exactly the least recently
\* accessed entry, and the others remain.
LeastRecentlyAccessedEvicted ==
    pc = "get_att_dets" =>
        /\ result.evicted # <<>> =>
              /\ Cardinality(result.entries_before) = max_entries
              /\ result.evicted = result.least_recent_before
              /\ DOMAIN cache =
                    (result.entries_before \ {result.evicted[1]})
                       \cup {result.attr_id}
        /\ (/\ result.attr_id \notin result.entries_before
            /\ result.attr_id \in DOMAIN cache
            /\ Cardinality(result.entries_before) = max_entries)
              => result.evicted # <<>>

\* The call for an evicted attribute does not answer from the cache, and
\* answers what an empty cache answers.
RederivedFromBackingMaps ==
    (pc = "get_att_dets" /\ result.returned_before_eviction # <<>>) =>
        /\ result.steps # <<"cache">>
        /\ result.value = Uncached(result.attr_id, result.noun_id)

\* C11: after an insertion into a full cache exactly the least recently
\* accessed entry (access = get hit or insertion) has been evicted and the
\* others remain; a later get_att_dets for the evicted attribute returns
\* metadata equal to what the same call returned before the eviction.
C11_EvictedIsRederivedEqual ==
    /\ LeastRecentlyAccessedEvicted
    /\ (/\ pc = "get_att_dets"
        /\ result.returned_before_eviction # <<>>
        /\ result.returned_before_eviction[1].noun_id = result.noun_id)
          => result.value = result.returned_before_eviction[1].value

\* C12: get_att_dets(attr, noun) returns the offset the binding table
\* records for (noun, attr), and every call returns what it returns from
\* an empty cache, whatever calls came before.
C12_CacheNeverChangesAnswer ==
    pc = "get_att_dets" =>
        /\ (result.noun_id # <<>> /\ result.value # <<>>) =>
              result.value[1].offset =
                 binding_offset(noun_attr_bindings, 1, result.noun_id[1],
                                result.attr_id)
        /\ result.value = Uncached(result.attr_id, result.noun_id)

\* ---------------------------------------------------------------------
\* Claims about the order of the lookup.

\* The pages the fallback scan may read.
AllowList ==
    {segment_pointers[k] : k \in 1..Len(segment_pointers)} \cup CORE_PAGES

\* The definition/index map has no definition of attr_id: it is not in the
\* index, or neither slot the index points at holds it.
IndexMisses(attr_id) ==
    \/ attr_id \notin DOMAIN hash_to_combined_id
    \/ LET combined_id == hash_to_combined_id[attr_id]
           target_page == WInt(WDiv(combined_id, WORDS_PER_PAGE))
           slot        == WMod(combined_id, WORDS_PER_PAGE)
       IN  /\ _check_slot(pages, target_page, slot, attr_id) = <<>>
           /\ _check_slot(pages, segment_pointers[1] + target_page, slot,
                          attr_id) = <<>>

\* The call was answered from the cache, with the entry cached.
FromCache(call) ==
    call.steps = <<"cache">> /\ call.value = call.cached_before

\* The call went past the cache: it asked the definition/index map, ran
\* the scan exactly when the map missed, the scan read allow-list pages
\* only, and None was returned only after the scan.
PastCache(call) ==
    /\ Len(call.steps) >= 2 /\ call.steps[2] = "definitions"
    /\ (call.steps[Len(call.steps)] = "scan")
          <=> (~call.defined_before /\ IndexMisses(call.attr_id))
    /\ \A k \in 1..Len(call.scan_reads) : call.scan_reads[k] \in AllowList
    /\ call.value = <<>> =>
          /\ call.steps[Len(call.steps)] = "scan"
          /\ call.scan_reads # <<>>

\* C13: get_att_dets answers from the cache when the attribute is cached;
\* on a cache miss it queries the definition/index map; only when that
\* misses it runs the fallback scan, which reads allow-list pages only;
\* None is returned only after the scan has missed.
C13_AnswersFromCacheWhenCached ==
    pc = "get_att_dets" =>
        IF result.cached_before # <<>> THEN FromCache(result)
        ELSE PastCache(result)

\* The entry cached answers the call: no noun is given, or the entry has
\* an offset.
CacheAnswers(call) ==
    /\ call.cached_before # <<>>
    /\ (call.noun_id = <<>> \/ call.cached_before[1].offset # W(0))

\* The order of the lookup as the code has it: the cache answers when the
\* attribute is cached and either no noun is given or the cached offset is
\* not 0; every other call goes past the cache.
CacheThenMapThenScan ==
    pc = "get_att_dets" =>
        IF CacheAnswers(result) THEN FromCache(result)
        ELSE PastCache(result)

\* ---------------------------------------------------------------------
\* Claims about get_attribute_value_by_ref.

\* The binding table has an entry for (noun_id, attr_id).
HasBinding(noun_id, attr_id) ==
    \E k \in 1..Len(noun_attr_bindings) :
        /\ noun_attr_bindings[k].noun_id = noun_id
        /\ noun_attr_bindings[k].attr_id = attr_id

\* C14: get_attribute_value_by_ref for a (noun, attr) pair without a
\* binding entry returns the absent value, raises nothing and decodes no
\* byte of the instance data.
C14_MissingBindingDecodesNothing ==
    (/\ pc = "resolved"
     /\ result.element # <<>>
     /\ ~HasBinding(result.element[1].noun_id, result.attr_id))
       => result.returned = NoValue /\ ~result.decoded

\* Without a call before it, get_attribute_value_by_ref for a pair without
\* a binding entry returns the absent value and decodes nothing.
FirstCallMissingBinding ==
    history.calls = 1 => C14_MissingBindingDecodesNothing

\* The metadata the call got has an offset, and the byte offset is past
\* the instance data.
PastInstanceData ==
    /\ pc = "resolved"
    /\ result.call # <<>>
    /\ result.call[1].value # <<>>
    /\ result.call[1].value[1].offset # W(0)
    /\ WGt(WMulAdd(result.call[1].value[1].offset, 4, 0),
           W(4 * Len(result.element[1].page_data)))

\* C15: when the byte offset exceeds the length of the instance data,
\* get_attribute_value_by_ref fails in a way that differs from a decoded
\* value and from what a missing binding returns.
C15_OffsetOutOfRangeSurfaced ==
    PastInstanceData =>
        /\ result.returned.status # "value"
        /\ result.returned # NoValue

\* The declared data type of the definition is none of LOGICAL..ORIENTATION.
UnknownType(attr_id) ==
    /\ attr_id \in DOMAIN attr_definitions
    /\ ~(/\ WLe(W(1), attr_definitions[attr_id].data_type)
         /\ WLe(attr_definitions[attr_id].data_type, W(8)))

\* C16: for a declared data type that is not one of the known types,
\* get_attribute_value_by_ref returns no decoded value.
C16_UnknownTypeNotDecoded ==
    (pc = "resolved" /\ UnknownType(result.attr_id))
       => result.returned.status # "value"

\* The end-to-end file: pointer table [3,4,5,6,6,6,6,6], the definition
\* record (H, Integer, no default) at page 3 and the binding record
\* (H, 42, 5) at page binding_page.
EndToEndFile(binding_page) ==
    [p \in 1..8 |->
        IF p - 1 = 3 THEN <<H, W(3), W(1)>>
        ELSE IF p - 1 = binding_page THEN <<H, Noun42, W(5)>>
        ELSE Filler]

\* The instance buffer with -7 at word offset 5, of noun 42.
EndToEndElement == Element(Noun42, <<W(0), W(3), Packed(-7)>>)

InitEndToEnd == Constructed({EndToEndFile(4), EndToEndFile(6)})

SpecEndToEnd == InitEndToEnd /\ [][NextResolve]_vars

\* get_attribute_value_by_ref was called for H and the end-to-end element.
EndToEndCall ==
    /\ pc = "resolved"
    /\ result.attr_id = H
    /\ result.element = <<EndToEndElement>>

POS == 545713

RECURSIVE noun_hashes_in_order(_, _, _)
\* for i in range(s2_start, s2_end - 1, 2): the hashes in range, in order.
\* IndexError where the file ends before i.
noun_hashes_in_order(words, i, s2_end) ==
    IF i >= s2_end - 1 THEN Returned(<<>>)
    ELSE IF i >= Len(words) THEN Raised("IndexError")
    ELSE LET rest == noun_hashes_in_order(words, i + 2, s2_end)
         IN  IF rest.status # "returned" THEN rest
             ELSE IF InHashRange(words[i + 1])
             THEN Returned(<<words[i + 1]>> \o rest.value)
             ELSE rest

RECURSIVE by_position(_, _, _)
\* noun_id_to_hash[idx] = h and noun_id_to_hash[idx + 1] = h, idx counted
\* from 0 over the hashes.
by_position(hashes, idx, noun_id_to_hash) ==
    IF idx >= Len(hashes) THEN noun_id_to_hash
    ELSE by_position(hashes, idx + 1,
                     DictPut(DictPut(noun_id_to_hash, W(idx),
                                     hashes[idx + 1]),
                             W(idx + 1), hashes[idx + 1]))

\* words[j] == 1 and words[j+1] == 1 and words[j+2] == 1, with j + 3 a
\* word of the file.
noun_header_at(words, j) ==
    /\ j + 3 < Len(words)
    /\ words[j + 1] = W(1) /\ words[j + 2] = W(1) /\ words[j + 3] = W(1)

RECURSIVE by_pos_attribute(_, _, _)
\* for i in range(len(self.words) - 20): a POS word followed by a noun id
\* below 10000 gives that noun the hash behind the nearest [1, 1, 1] among
\* the 50 words before it (the first one met from max(0, i - 50) on).
by_pos_attribute(words, i, noun_id_to_hash) ==
    IF i >= Len(words) - 20 THEN noun_id_to_hash
    ELSE LET noun_id == words[i + 2]
             lo == IF i - 50 > 0 THEN i - 50 ELSE 0
             js == {j \in lo..(i - 1) : noun_header_at(words, j)}
         IN  IF /\ words[i + 1] = W(POS)
                /\ WLt(W(0), noun_id) /\ WLt(noun_id, W(10000))
                /\ js # {}
             THEN by_pos_attribute(
                    words, i + 1,
                    DictPut(noun_id_to_hash, noun_id,
                            words[(CHOOSE j \in js :
                                      \A k \in js : j <= k) + 4]))
             ELSE by_pos_attribute(words, i + 1, noun_id_to_hash)

\* self.atnain_mappings[noun_hash][attr_hash] = offset
put_mapping(atnain_mappings, noun_hash, attr_hash, offset) ==
    DictPut(atnain_mappings, noun_hash,
            DictPut(IF noun_hash \in DOMAIN atnain_mappings
                    THEN atnain_mappings[noun_hash] ELSE <<>>,
                    attr_hash, offset))

RECURSIVE atnain_triples(_, _, _, _)
\* while curr_idx + 2 < len(self.words): the triples from start_word_idx
\* on, to the first one with 0xFFFFFFFF first or with attr_hash and noun_id
\* both 0.  A triple is kept when its noun id has a hash.
atnain_triples(words, curr_idx, noun_id_to_hash, atnain_mappings) ==
    IF curr_idx + 2 >= Len(words) THEN atnain_mappings
    ELSE LET attr_hash == words[curr_idx + 1]
             noun_id   == words[curr_idx + 2]
             offset    == words[curr_idx + 3]
         IN  IF \/ attr_hash = SEGMENT_END
                \/ (attr_hash = W(0) /\ noun_id = W(0))
             THEN atnain_mappings
             ELSE IF /\ InHashRange(attr_hash)
                     /\ noun_id \in DOMAIN noun_id_to_hash
                     /\ noun_id_to_hash[noun_id] # W(0)
             THEN atnain_triples(
                    words, curr_idx + 3, noun_id_to_hash,
                    put_mapping(atnain_mappings, noun_id_to_hash[noun_id],
                                attr_hash, offset))
             ELSE atnain_triples(words, curr_idx + 3, noun_id_to_hash,
                                 atnain_mappings)

\* the triples, once the hashes of segment 2 are known.
after_noun_hashes(wpp, words, pointers, hashes) ==
    IF hashes.status # "returned"
    THEN [status |-> hashes.status, atnain_mappings |-> <<>>]
    ELSE [status |-> "returned",
          atnain_mappings |->
             atnain_triples(
                words, pointers[4] * wpp,
                by_pos_attribute(words, 0,
                                 by_position(hashes.value, 0, <<>>)),
                <<>>)]

\* _load_atnain of generate_attr_info.py on self.words, the words of the
\* file from 0x1000 on; wpp is ATTLIB_WORDS_PER_PAGE.
generate_load_atnain_paged(wpp, words, pointers) ==
    IF Len(pointers) < 4 \/ pointers[4] = 0
    THEN [status |-> "returned", atnain_mappings |-> <<>>]
    ELSE after_noun_hashes(
            wpp, words, pointers,
            noun_hashes_in_order(words, pointers[3] * wpp,
                                 pointers[4] * wpp))

\* It at the page size of the other loaders.
generate_load_atnain(words, pointers) ==
    generate_load_atnain_paged(WORDS_PER_PAGE, words, pointers)

\* bindings[noun_id][attr_id] = offset; no upper limit on attr_id.
analyze_triple(p_words, i, bindings) ==
    IF ~WLt(p_words[i + 1], W(MIN_HASH))
    THEN put_mapping(bindings, p_words[i + 2], p_words[i + 1],
                     p_words[i + 3])
    ELSE bindings

RECURSIVE analyze_page(_, _, _)
\* for i in range(0, 512 - 2, 3): a first word 0 is passed over, a first
\* word 0xFFFFFFFF leaves the loop of this page.
analyze_page(p_words, i, bindings) ==
    IF i >= WORDS_PER_PAGE - 2 THEN Returned(bindings)
    ELSE IF i + 2 >= Len(p_words) THEN Raised("IndexError")
    ELSE IF p_words[i + 1] = W(0)
    THEN analyze_page(p_words, i + 3, bindings)
    ELSE IF p_words[i + 1] = SEGMENT_END THEN Returned(bindings)
    ELSE analyze_page(p_words, i + 3, analyze_triple(p_words, i, bindings))

RECURSIVE analyze_pages(_, _, _, _)
\* for p in range(atnain_start, atnain_end)
analyze_pages(all_words, p, atnain_end, bindings) ==
    IF p >= atnain_end THEN [status |-> "returned", bindings |-> bindings]
    ELSE LET page == analyze_page(
                        Slice(all_words, p * WORDS_PER_PAGE,
                              (p + 1) * WORDS_PER_PAGE), 0, bindings)
         IN  IF page.status # "returned"
             THEN [status |-> page.status, bindings |-> bindings]
             ELSE analyze_pages(all_words, p + 1, atnain_end, page.value)

\* analyze of final_atnain_analyzer.py: struct.unpack(">8I", f.read(32))
\* fails on a table of fewer than 8 words.
analyze(table, all_words) ==
    IF Len(table) # NUM_POINTERS
    THEN [status |-> "struct.error", bindings |-> <<>>]
    ELSE analyze_pages(all_words, table[4], table[5], <<>>)

\* The pages of the binding segment (one triple a page at this page size).
NumBindPages == 3

Noun1 == W(1)
Zero3 == <<W(0), W(0), W(0)>>
\* A triple: nothing, the end, a binding of noun 1 (at offset 5, or 6),
\* a binding of noun 42, or a first word below the hash range.
BindTriples ==
    {Zero3, Filler, <<H, Noun1, W(5)>>, <<H, Noun1, W(6)>>,
     <<G, Noun42, W(7)>>, <<W(1), Noun1, W(9)>>}
\* Page 0 is segment 2, the noun index: one noun hash.
NounIndexPage == <<G, W(0), W(0)>>
BindFiles ==
    {<<NounIndexPage>> \o s : s \in [1..NumBindPages -> BindTriples]}
\* Segment 2 at page 0, segment 3 from page 1 to the end of the file.
BindPointers ==
    [i \in 1..NUM_POINTERS |-> IF i <= 3 THEN 0
                               ELSE IF i = 4 THEN 1 ELSE NumBindPages + 1]

InitBind ==
    /\ pc \in {"e3d", "generate_attr_info", "final_atnain_analyzer"}
    /\ pages \in BindFiles
    /\ pointer_table = BindPointers
    /\ segment_pointers = BindPointers
    /\ result = None
    /\ CodecIdle /\ CacheIdle /\ SourceIdle

\* A loader ran: noun_attr_bindings is what it filled.
BindingsLoaded(status, bindings) ==
    /\ history = <<>>
    /\ noun_attr_bindings' = bindings
    /\ result' = [status |-> status]
    /\ history' = <<"bindings">>
    /\ UNCHANGED <<pc, pages, pointer_table, segment_pointers, codecVars,
                   cacheVars, attr_definitions, hash_to_combined_id,
                   page_cache>>

E3dLoadAtnain ==
    /\ pc = "e3d"
    /\ \E l \in {_load_atnain(pages, segment_pointers)} :
          BindingsLoaded(l.status, l.noun_attr_bindings)

GenerateLoadAtnain ==
    /\ pc = "generate_attr_info"
    /\ \E l \in {generate_load_atnain(Flat(pages), segment_pointers)} :
          BindingsLoaded(l.status, l.atnain_mappings)

AnalyzeAtnain ==
    /\ pc = "final_atnain_analyzer"
    /\ \E l \in {analyze(pointer_table, Flat(pages))} :
          BindingsLoaded(l.status, l.bindings)

NextBind == E3dLoadAtnain \/ GenerateLoadAtnain \/ AnalyzeAtnain

SpecBind == InitBind /\ [][NextBind]_vars

BindingsParsed == history = <<"bindings">> /\ result.status = "returned"

\* The (attribute, offset) pairs a loader recorded.
RecordedPairs ==
    IF pc = "e3d"
    THEN {<<noun_attr_bindings[k].attr_id, noun_attr_bindings[k].offset>> :
             k \in 1..Len(noun_attr_bindings)}
    ELSE UNION {{<<a, noun_attr_bindings[n][a]>> :
                    a \in DOMAIN noun_attr_bindings[n]} :
                n \in DOMAIN noun_attr_bindings}

\* The triples of the file, in stream order.
Triple(k) == pages[k + 1]
Terminator(t) == t[1] = SEGMENT_END \/ t = Zero3
\* The triples before the first terminator.
BeforeTerminator ==
    {k \in 1..NumBindPages : \A j \in 1..k : ~Terminator(Triple(j))}

\* C26: the binding parse ends at the first triple whose first word is
\* SEGMENT_END or whose three words are all zero: every binding recorded
\* is a triple located before that one.
C26_NothingRecordedAfterTerminator ==
    BindingsParsed =>
        \A r \in RecordedPairs :
            \E k \in BeforeTerminator :
                Triple(k)[1] = r[1] /\ Triple(k)[3] = r[2]

\* C26 for _load_atnain of generate_attr_info.py.
GenerateStopsAtTerminator ==
    pc = "generate_attr_info" => C26_NothingRecordedAfterTerminator

\* C26 for _load_atnain of e3d_attribute_parser.py past a SEGMENT_END: only
\* an all-zero triple is passed over.
E3dStopsAtSegmentEnd ==
    (BindingsParsed /\ pc = "e3d") =>
        \A r \in RecordedPairs :
            \E k \in 1..NumBindPages :
                /\ Triple(k)[1] = r[1] /\ Triple(k)[3] = r[2]
                /\ \A j \in 1..k : Triple(j)[1] # SEGMENT_END

\* The nouns and attributes of the recorded bindings, and the offsets
\* recorded for a pair.
RecordedNouns ==
    IF pc = "e3d"
    THEN {noun_attr_bindings[k].noun_id : k \in 1..Len(noun_attr_bindings)}
    ELSE DOMAIN noun_attr_bindings
RecordedOffsets(noun, attr) ==
    IF pc = "e3d"
    THEN {noun_attr_bindings[k].offset :
             k \in {j \in 1..Len(noun_attr_bindings) :
                       /\ noun_attr_bindings[j].noun_id = noun
                       /\ noun_attr_bindings[j].attr_id = attr}}
    ELSE IF attr \in DOMAIN noun_attr_bindings[noun]
    THEN {noun_attr_bindings[noun][attr]}
    ELSE {}

\* The offset a value read of (noun, attr) uses: the loop of get_att_dets
\* over the list, the entry of the mapping.
OffsetRead(noun, attr) ==
    IF pc = "e3d" THEN binding_offset(noun_attr_bindings, 1, noun, attr)
    ELSE noun_attr_bindings[noun][attr]

\* C27: the binding result maps, per noun identifier, attribute_hash to
\* word_offset: at most one word_offset is recorded for a (noun, attribute)
\* pair, and a value read of the pair uses that offset.
C27_OneOffsetPerPair ==
    BindingsParsed =>
        \A noun \in RecordedNouns, attr \in Attrs :
            /\ Cardinality(RecordedOffsets(noun, attr)) <= 1
            /\ RecordedOffsets(noun, attr) # {}
                  => RecordedOffsets(noun, attr) = {OffsetRead(noun, attr)}

\* C27 for the two loaders that fill a dict.
MappingsHoldOneOffset == pc # "e3d" => C27_OneOffsetPerPair

\* The list of e3d_attribute_parser.py holds every triple, and get_att_dets
\* reads the offset of the first one of a pair.
E3dReadsFirstRecorded ==
    (BindingsParsed /\ pc = "e3d") =>
        \A k \in 1..Len(noun_attr_bindings) :
            (\A j \in 1..(k - 1) :
                \/ noun_attr_bindings[j].noun_id # noun_attr_bindings[k].noun_id
                \/ noun_attr_bindings[j].attr_id # noun_attr_bindings[k].attr_id)
            => OffsetRead(noun_attr_bindings[k].noun_id,
                          noun_attr_bindings[k].attr_id)
                  = noun_attr_bindings[k].offset

\* ---------------------------------------------------------------------
\* The value decoder on its own: read_attribute_value on an instance
\* buffer, at the byte offset get_attribute_value_by_ref computes from a
\* word offset.

RECURSIVE pack_f(_, _, _)
\* The word that holds the single (-1)^sign * mant * 2^exp, mant > 0.
pack_f(sign, mant, exp) ==
    IF mant < 2^23 THEN pack_f(sign, mant * 2, exp - 1)
    ELSE <<sign * 2^15 + (exp + 150) * 2^7 + (mant - 2^23) \div Limb,
           (mant - 2^23) % Limb>>

One == Float(0, 1, 0)
Two == Float(0, 1, 1)
Three == Float(0, 3, 0)
F1 == pack_f(0, 1, 0)
F2 == pack_f(0, 1, 1)
F3 == pack_f(0, 3, 0)

\* The words of a buffer, at most.
MaxBufferWords == 3

\* 0, 2^31 - 1, 2^31, -7 and the singles 1.0, 2.0, 3.0.
DecodeWords ==
    {W(0), <<2^15 - 1, Limb - 1>>, <<2^15, 0>>, Packed(-7), F1, F2, F3}
\* Nine words and more: a header word, then three rows.
MatrixBuffers ==
    {<<W(0)>> \o r \o r \o r : r \in {<<F1, F2, F3>>, <<F3, F1, F2>>}}
\* The code points around the printable range.
TextWords == {W(31), W(32), W(126), W(127)}
\* A header word, a length word and three words of characters.
TextBuffers ==
    {<<W(0), W(n)>> \o c : n \in 0..4, c \in [1..3 -> TextWords]}
Buffers ==
    UNION {[1..n -> DecodeWords] : n \in 1..MaxBufferWords}
        \cup MatrixBuffers \cup TextBuffers

InitDecode ==
    /\ pc = "input"
    /\ IndexIdle /\ CodecIdle /\ CacheIdle /\ SourceIdle

\* byte_offset = metadata.offset * 4, then
\* read_attribute_value(page_data, byte_offset, metadata.data_type).
ReadAttributeValue ==
    /\ pc = "input"
    /\ \E page_data \in Buffers, k \in 0..(MaxBufferWords + 1),
          data_type \in 0..9 :
          result' =
             [page_data |-> page_data, word_offset |-> k,
              data_type |-> data_type,
              returned |-> read_attribute_value(
                              page_data, WMulAdd(W(k), 4, 0), data_type)]
    /\ pc' = "read_attribute_value"
    /\ UNCHANGED <<pages, pointer_table, segment_pointers, codecVars,
                   cacheVars, sourceVars>>

NextDecode == ReadAttributeValue

SpecDecode == InitDecode /\ [][NextDecode]_vars

\* read_attribute_value ran for the data type, with n words of the buffer
\* from the word offset on.
Decoded(data_type, n) ==
    /\ pc = "read_attribute_value"
    /\ result.data_type = data_type
    /\ result.word_offset + n <= Len(result.page_data)
\* The i-th word from the word offset on, i counted from 0.
WordAt(i) == result.page_data[result.word_offset + 1 + i]

\* C28: an Integer at word offset k is the word at byte offset k * 4 read
\* as signed: w for w < 2^31, w - 2^32 for w >= 2^31.
C28_IntegerIsSigned ==
    Decoded(3, 1) =>
        /\ result.returned.status = "value"
        /\ result.returned.kind = "int"
        /\ Len(result.returned.words) = 1
        /\ IF WLt(WordAt(0), <<2^15, 0>>)
           THEN result.returned.words[1] = WordAt(0)
           ELSE <<result.returned.words[1][1] + Limb,
                  result.returned.words[1][2]>> = WordAt(0)

\* C28: the word 0xFFFFFFF9 behind other words of the buffer was read as
\* the Integer -7.
C28_Witness ==
    /\ Decoded(3, 1)
    /\ result.word_offset > 0
    /\ WordAt(0) = Packed(-7)
    /\ result.returned = Value("int", <<W(-7)>>)

\* C29: a Position or Direction at byte offset b is the three words at b,
\* b + 4 and b + 8 read as floats, in that order; the words of 1.0, 2.0 and
\* 3.0 give exactly (1.0, 2.0, 3.0).
C29_PositionIsThreeFloats ==
    (Decoded(6, 3) \/ Decoded(7, 3)) =>
        /\ result.returned =
              Value("xyz", <<unpack_f(WordAt(0)), unpack_f(WordAt(1)),
                             unpack_f(WordAt(2))>>)
        /\ <<WordAt(0), WordAt(1), WordAt(2)>> = <<F1, F2, F3>>
              => result.returned.words = <<One, Two, Three>>

\* C29: a Direction behind other words of the buffer was read as
\* (1.0, 2.0, 3.0).
C29_Witness ==
    /\ Decoded(7, 3)
    /\ result.word_offset > 0
    /\ Len(result.page_data) > result.word_offset + 3
    /\ result.returned = Value("xyz", <<One, Two, Three>>)

\* C30: an Orientation is the nine words from its byte offset on, read as
\* floats, row by row.
C30_OrientationIsNineFloats ==
    Decoded(8, 9) =>
        /\ result.returned.status = "value"
        /\ result.returned.words = [i \in 1..9 |-> unpack_f(WordAt(i - 1))]

\* What read_attribute_value gives an Orientation: its first word, as an
\* unsigned integer.
OrientationReadAsOneWord ==
    Decoded(8, 1) => result.returned = Value("uint", <<WordAt(0)>>)

\* C31: a Text whose first word is the length N, with its N words in the
\* buffer, is decoded into N characters, the i-th from the i-th following
\* word: the code point itself from 32 to 126, the placeholder otherwise.
C31_TextIsNCharacters ==
    (Decoded(4, 1) /\ WLe(WordAt(0), W(MaxBufferWords + 1))) =>
        (Decoded(4, 1 + WInt(WordAt(0))) =>
            result.returned =
               Value("text",
                     [i \in 1..WInt(WordAt(0)) |->
                         IF WordAt(i) \in {W(c) : c \in 32..126}
                         THEN WordAt(i) ELSE W(63)]))

\* C31: a Text of three characters was decoded, with a printable one and
\* the two code points next to the printable range among them.
C31_Witness ==
    /\ Decoded(4, 4)
    /\ WordAt(0) = W(3)
    /\ <<WordAt(1), WordAt(2), WordAt(3)>> = <<W(127), W(126), W(31)>>
    /\ result.returned = Value("text", <<W(63), W(126), W(63)>>)

\* The value at the word offset needs more words than the buffer has from
\* there on: 3 for a Position or Direction, 9 for an Orientation, 1 + N for
\* a Text of length N, 1 otherwise.
ExtendsBeyondBuffer ==
    LET avail == Len(result.page_data) - result.word_offset
    IN  IF result.data_type \in {6, 7} THEN avail < 3
        ELSE IF result.data_type = 8 THEN avail < 9
        ELSE IF result.data_type = 4 THEN ~WLt(WordAt(0), W(avail))
        ELSE FALSE

\* C36: for an offset inside the buffer whose value extends beyond it,
\* read_attribute_value returns an error result: it neither raises nor
\* returns a value.
C36_NeverReadsPastTheEnd ==
    (Decoded(result.data_type, 1) /\ ExtendsBeyondBuffer) =>
        result.returned.status \notin {"value", "struct.error"}

\* What it does there: a Position or Direction raises, a Text or an
\* Orientation gives a value of the words there are.
ShortPositionRaises ==
    (Decoded(result.data_type, 1) /\ ExtendsBeyondBuffer
        /\ result.data_type \in {6, 7})
        => result.returned = ValueError
ShortTextIsCut ==
    (Decoded(4, 1) /\ ExtendsBeyondBuffer) =>
        /\ result.returned.status = "value"
        /\ Len(result.returned.words)
              = Len(result.page_data) - result.word_offset - 1

\* C39: for every hash h in [MIN_HASH, MAX_HASH], db1_hash of the name
\* decode_base27 gives for h is h again.
C39_EncodeOfDecode ==
    (pc = "reencoded" /\ ~OutOfHashRange(hash_val)) => enc = hash_val

\* C39 for the hashes whose name holds no space.
ReencodeWithoutSpace ==
    (pc = "reencoded" /\ ~OutOfHashRange(hash_val)
        /\ \A i \in 1..Len(dec.parse_atgtix2) : dec.parse_atgtix2[i] # 32)
        => enc = hash_val

\* access_order holds each key of cache once, and nothing else.
OrderMatchesCache ==
    /\ {access_order[i] : i \in 1..Len(access_order)} = DOMAIN cache
    /\ Len(access_order) = Cardinality(DOMAIN cache)

\* C40: in every state get, put and clear reach on one AttlibCache,
\* access_order holds each key of cache exactly once and nothing else, and
\* a put of an attribute already cached leaves cache and access_order
\* unchanged.
C40_OrderMatchesCache ==
    /\ []OrderMatchesCache
    /\ [][pc' = "put_cached" => UNCHANGED <<cache, access_order>>]_vars

\* C40: a put of the attribute cached first was made on a cache of two
\* entries.
C40_Witness ==
    /\ pc = "put_cached"
    /\ Len(access_order) = 2
    /\ max_entries = 2

\* ---------------------------------------------------------------------
\* One AttlibCache shared by two threads.  The class holds no lock; a
\* thread switch can fall between any two statements of get and put, each
\* statement on the dict or the list being one step.  pc[t] is the frame of
\* thread t: its position, the attribute of its call, the local oldest
\* and the calls it has made; result[t] is how its last call ended.

Threads == {1, 2}
\* The calls a thread makes, at most.
MaxThreadCalls == 2

Frame(at, attr_id, oldest, calls) ==
    [at |-> at, attr_id |-> attr_id, oldest |-> oldest, calls |-> calls]
MetadataOf(attr_id) ==
    [attr_id |-> attr_id, data_type |-> 3, offset |-> 0, length |-> 4]

InitThreads ==
    /\ pc = [t \in Threads |-> Frame("idle", 0, 0, 0)]
    /\ result = [t \in Threads |-> None]
    /\ max_entries \in 1..MaxCacheEntries
    /\ cache = <<>> /\ access_order = <<>>
    /\ pages = <<>> /\ pointer_table = <<>> /\ segment_pointers = <<>>
    /\ CodecIdle /\ SourceIdle

ThreadsUnchanged ==
    UNCHANGED <<pages, pointer_table, segment_pointers, max_entries,
                codecVars, sourceVars>>

\* Thread t goes to position at; the rest of its frame stays.
Goto(t, at) == pc' = [pc EXCEPT ![t].at = at]
\* The call of thread t ends with outcome r.
Ends(t, r) ==
    /\ pc' = [pc EXCEPT ![t].at = IF r \in {None, "returned"} THEN "idle"
                                  ELSE "raised"]
    /\ result' = [result EXCEPT ![t] = r]

\* A thread calls get(attr_id) or put(metadata).
ThreadCall(t) ==
    /\ pc[t].at = "idle"
    /\ pc[t].calls < MaxThreadCalls
    /\ \E op \in {"get", "put"}, attr_id \in 1..NumAttrs :
          pc' = [pc EXCEPT ![t] = Frame(op, attr_id, 0, pc[t].calls + 1)]
    /\ UNCHANGED <<cache, access_order, result>>
    /\ ThreadsUnchanged

\* if attr_id in self.cache: ... return None
GetTest(t) ==
    /\ pc[t].at = "get"
    /\ IF pc[t].attr_id \in DOMAIN cache
       THEN Goto(t, "get_remove") /\ UNCHANGED result
       ELSE Ends(t, None)
    /\ UNCHANGED <<cache, access_order>>
    /\ ThreadsUnchanged

\* self.access_order.remove(attr_id): ValueError when it is not there.
GetRemove(t) ==
    /\ pc[t].at = "get_remove"
    /\ IF \E i \in 1..Len(access_order) : access_order[i] = pc[t].attr_id
       THEN /\ access_order' = list_remove(access_order, pc[t].attr_id)
            /\ Goto(t, "get_append") /\ UNCHANGED result
       ELSE Ends(t, "ValueError") /\ UNCHANGED access_order
    /\ UNCHANGED cache
    /\ ThreadsUnchanged

\* self.access_order.append(attr_id)
GetAppend(t) ==
    /\ pc[t].at = "get_append"
    /\ access_order' = Append(access_order, pc[t].attr_id)
    /\ Goto(t, "get_return")
    /\ UNCHANGED <<cache, result>>
    /\ ThreadsUnchanged

\* return self.cache[attr_id]: KeyError when it is gone.
GetReturn(t) ==
    /\ pc[t].at = "get_return"
    /\ Ends(t, IF pc[t].attr_id \in DOMAIN cache THEN "returned"
               ELSE "KeyError")
    /\ UNCHANGED <<cache, access_order>>
    /\ ThreadsUnchanged

\* if metadata.attr_id in self.cache: return
PutTest(t) ==
    /\ pc[t].at = "put"
    /\ IF pc[t].attr_id \in DOMAIN cache
       THEN Ends(t, None)
       ELSE Goto(t, "put_full") /\ UNCHANGED result
    /\ UNCHANGED <<cache, access_order>>
    /\ ThreadsUnchanged

\* if len(self.cache) >= self.max_entries
PutFull(t) ==
    /\ pc[t].at = "put_full"
    /\ Goto(t, IF Cardinality(DOMAIN cache) >= max_entries THEN "put_pop"
               ELSE "put_store")
    /\ UNCHANGED <<cache, access_order, result>>
    /\ ThreadsUnchanged

\* oldest = self.access_order.pop(0): IndexError on the empty list.
PutPop(t) ==
    /\ pc[t].at = "put_pop"
    /\ IF access_order = <<>>
       THEN Ends(t, "IndexError") /\ UNCHANGED access_order
       ELSE /\ access_order' = Tail(access_order)
            /\ pc' = [pc EXCEPT ![t].at = "put_del",
                                ![t].oldest = Head(access_order)]
            /\ UNCHANGED result
    /\ UNCHANGED cache
    /\ ThreadsUnchanged

\* del self.cache[oldest]: KeyError when it is gone.
PutDel(t) ==
    /\ pc[t].at = "put_del"
    /\ IF pc[t].oldest \in DOMAIN cache
       THEN /\ cache' = DictDel(cache, pc[t].oldest)
            /\ Goto(t, "put_store") /\ UNCHANGED result
       ELSE Ends(t, "KeyError") /\ UNCHANGED cache
    /\ UNCHANGED access_order
    /\ ThreadsUnchanged

\* self.cache[metadata.attr_id] = metadata
PutStore(t) ==
    /\ pc[t].at = "put_store"
    /\ cache' = DictPut(cache, pc[t].attr_id, MetadataOf(pc[t].attr_id))
    /\ Goto(t, "put_append")
    /\ UNCHANGED <<access_order, result>>
    /\ ThreadsUnchanged

\* self.access_order.append(metadata.attr_id)
PutAppend(t) ==
    /\ pc[t].at = "put_append"
    /\ access_order' = Append(access_order, pc[t].attr_id)
    /\ Ends(t, None)
    /\ UNCHANGED cache
    /\ ThreadsUnchanged

NextThreads ==
    \E t \in Threads :
        \/ ThreadCall(t)
        \/ GetTest(t) \/ GetRemove(t) \/ GetAppend(t) \/ GetReturn(t)
        \/ PutTest(t) \/ PutFull(t) \/ PutPop(t) \/ PutDel(t)
        \/ PutStore(t) \/ PutAppend(t)

SpecThreads == InitThreads /\ [][NextThreads]_vars

Raises == {"ValueError", "KeyError", "IndexError"}
\* No call is under way.
Quiescent == \A t \in Threads : pc[t].at \in {"idle", "raised"}

\* C38: under any interleaving of the steps of get and put of two threads
\* on one AttlibCache no operation raises, the keys of cache are the
\* elements of access_order (between the operations), and the size never
\* exceeds max_entries.
C38_SharedCacheIsSynchronized ==
    /\ \A t \in Threads : result[t] \notin Raises
    /\ Quiescent =>
          {access_order[i] : i \in 1..Len(access_order)} = DOMAIN cache
    /\ Cardinality(DOMAIN cache) <= max_entries

\* The three parts of C38, each on its own.
NoThreadRaises == \A t \in Threads : result[t] \notin Raises
SharedOrderMatchesCache ==
    Quiescent =>
        {access_order[i] : i \in 1..Len(access_order)} = DOMAIN cache
SharedSizeWithinLimit == Cardinality(DOMAIN cache) <= max_entries

\* With one thread at work alone the three hold.
OneThreadAlone == pc[2].calls = 0 => C38_SharedCacheIsSynchronized

\* ---------------------------------------------------------------------
\* A binding recorded at word offset 0.

\* The end-to-end file with the binding record (H, 42, offset) at page 6,
\* the start page of segment 3.
BindingFile(offset) ==
    [p \in 1..8 |->
        IF p - 1 = 3 THEN <<H, W(3), W(1)>>
        ELSE IF p - 1 = 6 THEN <<H, Noun42, offset>>
        ELSE Filler]
\* The same file without a binding record.
NoBindingFile ==
    [p \in 1..8 |-> IF p - 1 = 3 THEN <<H, W(3), W(1)>> ELSE Filler]

InitZeroOffset == Constructed({BindingFile(W(0)), NoBindingFile})

SpecZeroOffset == InitZeroOffset /\ [][NextResolve]_vars

\* get_attribute_value_by_ref was called for H and an element of noun 42.
BoundCall ==
    /\ pc = "resolved"
    /\ result.attr_id = H
    /\ result.element # <<>>
    /\ result.element[1].noun_id = Noun42

\* C35: a binding recorded at word offset 0 is a recorded binding: the
\* value is decoded at byte 0 of the instance buffer, MissingBinding is not
\* reported.
C35_ZeroOffsetIsABinding ==
    (BoundCall /\ pages = BindingFile(W(0))) =>
        result.returned =
           Value("int", <<Signed(result.element[1].page_data[1])>>)

\* What the resolver does: with the binding at offset 0 and with no
\* binding at all, nothing is decoded.
ZeroOffsetReadsAsMissing ==
    BoundCall => (result.returned = NoValue /\ ~result.decoded)

\* get_att_dets gives the offset 0 with the binding at offset 0 and with no
\* binding at all.
ZeroOffsetLikeAbsent ==
    (BoundCall /\ result.call # <<>> /\ result.call[1].value # <<>>)
        => result.call[1].value[1].offset = W(0)

\* ---------------------------------------------------------------------
\* The binding segment over several pages whose size is no multiple of 3,
\* as the 512 words of a page are not: 512 = 3 * 170 + 2.

\* ATTLIB_WORDS_PER_PAGE for the binding stream: 512 scaled down, the
\* remainder 2 of the division by 3 kept.
STREAM_WORDS_PER_PAGE == 5

\* The most triples of a stream.
MaxStreamTriples == 3

\* A binding of noun 1: attribute H, G or X at offset 5 or 6.
StreamTriples == {<<a, Noun1, W(o)>> : a \in {H, G, X}, o \in {5, 6}}
\* One to MaxStreamTriples bindings of different attributes.
Streams ==
    {s \in UNION {[1..n -> StreamTriples] : n \in 1..MaxStreamTriples} :
        \A i, j \in DOMAIN s : i # j => s[i][1] # s[j][1]}

RECURSIVE StreamWords(_)
\* The words of the triples, one after the other.
StreamWords(s) == IF s = <<>> THEN <<>> ELSE Head(s) \o StreamWords(Tail(s))

\* The pages the words take, SEGMENT_END behind the last triple and to the
\* end of the page after.
StreamPageCount(s) == (3 * Len(s)) \div STREAM_WORDS_PER_PAGE + 2
StreamPages(s) ==
    [p \in 1..StreamPageCount(s) |->
        [k \in 1..STREAM_WORDS_PER_PAGE |->
            LET i == (p - 1) * STREAM_WORDS_PER_PAGE + k
            IN  IF i <= 3 * Len(s) THEN StreamWords(s)[i]
                ELSE SEGMENT_END]]

\* Page 0 is segment 2, the noun index: noun 1 has the hash G.
StreamNounIndexPage == <<G, W(0), W(0), W(0), W(0)>>
StreamFile(s) == <<StreamNounIndexPage>> \o StreamPages(s)
\* Segment 2 at page 0, segment 3 from page 1 on.
StreamPointers ==
    [i \in 1..NUM_POINTERS |-> IF i <= 3 THEN 0 ELSE IF i = 4 THEN 1 ELSE 4]

InitStream ==
    /\ pc = "input"
    /\ pages \in {StreamFile(s) : s \in Streams}
    /\ pointer_table = StreamPointers
    /\ segment_pointers = StreamPointers
    /\ result = None
    /\ CodecIdle /\ CacheIdle /\ SourceIdle

\* AttlibDataSource._load_atnain on the file.
E3dLoadStream ==
    /\ pc = "input"
    /\ \E l \in {load_atnain_paged(STREAM_WORDS_PER_PAGE, pages,
                                   segment_pointers)} :
          /\ noun_attr_bindings' = l.noun_attr_bindings
          /\ result' = [e3d |-> l.status]
    /\ pc' = "e3d"
    /\ history' = <<"bindings">>
    /\ UNCHANGED <<pages, pointer_table, segment_pointers, codecVars,
                   cacheVars, attr_definitions, hash_to_combined_id,
                   page_cache>>

\* AttlibParser._load_atnain of generate_attr_info.py on the same file.
GenerateLoadStream ==
    /\ pc = "e3d"
    /\ \E l \in {generate_load_atnain_paged(STREAM_WORDS_PER_PAGE,
                                            Flat(pages),
                                            segment_pointers)} :
          result' = [e3d |-> result.e3d, generate_attr_info |-> l.status,
                     atnain_mappings |-> l.atnain_mappings]
    /\ pc' = "generate_attr_info"
    /\ history' = Append(history, "atnain_mappings")
    /\ UNCHANGED <<pages, pointer_table, segment_pointers, codecVars,
                   cacheVars, attr_definitions, hash_to_combined_id,
                   noun_attr_bindings, page_cache>>

NextStream == E3dLoadStream \/ GenerateLoadStream

SpecStream == InitStream /\ [][NextStream]_vars

\* Both loaders ran and returned.
StreamLoaded ==
    /\ pc = "generate_attr_info"
    /\ result.e3d = "returned" /\ result.generate_attr_info = "returned"

\* The (attribute, noun hash, offset) triples of the two loaders; noun 1 is
\* the noun of hash G.
E3dStreamTriples ==
    {<<noun_attr_bindings[k].attr_id,
       IF noun_attr_bindings[k].noun_id = Noun1 THEN G
       ELSE noun_attr_bindings[k].noun_id,
       noun_attr_bindings[k].offset>> : k \in 1..Len(noun_attr_bindings)}
GenerateStreamTriples ==
    UNION {{<<a, n, result.atnain_mappings[n][a]>> :
               a \in DOMAIN result.atnain_mappings[n]} :
           n \in DOMAIN result.atnain_mappings}

\* The triples of the file, taken three words at a time from the stream.
FileStreamTriples ==
    LET words == Flat(Tail(pages))
    IN  {<<words[3 * k + 1], G, words[3 * k + 3]>> :
            k \in {j \in 0..(Len(words) \div 3 - 1) :
                      InHashRange(words[3 * j + 1])}}

\* C37: binding triples are taken three words at a time from the
\* continuous word stream of the segment, a triple begun in the last words
\* of a page completed on the next one, and _load_atnain of
\* e3d_attribute_parser.py and of generate_attr_info.py read the same
\* triples from the same multi-page segment.
C37_SameTriplesAcrossPages ==
    StreamLoaded =>
        /\ E3dStreamTriples = FileStreamTriples
        /\ E3dStreamTriples = GenerateStreamTriples

\* _load_atnain of generate_attr_info.py reads the continuous stream.
GenerateReadsTheStream ==
    StreamLoaded => GenerateStreamTriples = FileStreamTriples

\* _load_atnain of e3d_attribute_parser.py reads the triples that lie
\* within the first page, and no other binding of the stream.
E3dReadsWithinThePage ==
    StreamLoaded =>
        E3dStreamTriples = {<<pages[2][1], G, pages[2][3]>>}

\* The two loaders agree on a segment that ends within its first page.
SamePageSameTriples ==
    (StreamLoaded /\ pages[2][4] = SEGMENT_END) =>
        E3dStreamTriples = GenerateStreamTriples

\* ---------------------------------------------------------------------
\* Definition records whose default value is itself a word of the hash
\* range (a text default is base-27 words), read by load_atgtdf and by
\* parse_atgtdf_section.

\* The words after [hash][data_type]: flag 1, or flag 2 and the default: a
\* scalar, or a length word and that many text words.
DefaultRecords ==
    {<<h, W(1), W(1)>> : h \in {H, G}}
      \cup {<<h, W(1), W(2), d>> : h \in {H, G}, d \in {W(5), X}}
      \cup {<<h, W(4), W(2), W(1), d>> : h \in {H, G}, d \in {W(5), X}}
DefaultRecordLists ==
    UNION {[1..n -> DefaultRecords] : n \in 1..MaxDefRecords}

RECURSIVE StreamOf(_)
\* The words of the records, one after the other.
StreamOf(recs) ==
    IF recs = <<>> THEN <<>> ELSE Head(recs) \o StreamOf(Tail(recs))

RECURSIVE SegmentWords(_)
\* The words of a segment before its SEGMENT_END.
SegmentWords(words) ==
    IF words = <<>> \/ Head(words) = SEGMENT_END THEN <<>>
    ELSE <<Head(words)>> \o SegmentWords(Tail(words))

InitDefault ==
    /\ pc = "input"
    /\ pages \in {Paged(Padding(a) \o StreamOf(recs)) :
                     a \in 0..(WORDS_PER_PAGE - 1),
                     recs \in DefaultRecordLists}
    /\ pointer_table = TableOf("parse_attlib")
    /\ segment_pointers = pointer_table
    /\ result = None
    /\ CodecIdle /\ CacheIdle /\ SourceIdle

\* load_atgtdf of parse_attlib.py on the file.
LoadAtgtdfDefault ==
    /\ pc = "input"
    /\ \E l \in {load_atgtdf(pages, segment_pointers)} :
          /\ attr_definitions' = l.defs
          /\ result' = [parse_attlib |-> l.status]
    /\ pc' = "parse_attlib"
    /\ history' = <<"defs">>
    /\ UNCHANGED <<pages, pointer_table, segment_pointers, codecVars,
                   cacheVars, hash_to_combined_id, noun_attr_bindings,
                   page_cache>>

\* parse_all of parse_attlib_complete.py on the same words, each page
\* closed by PAGE_SWITCH: parse_section, then parse_atgtdf_section.
ParseAtgtdfDefault ==
    /\ pc = "parse_attlib"
    /\ result' =
          [parse_attlib |-> result.parse_attlib,
           attribute_definitions |->
              parse_atgtdf_section(
                 parse_section(
                    file_pages(TableOf("parse_attlib_complete"),
                               SwitchPaged(SegmentWords(Flat(pages)))),
                    read_section_pointers(
                       TableOf("parse_attlib_complete")).value[2]))]
    /\ pc' = "parse_attlib_complete"
    /\ history' = Append(history, "attribute_definitions")
    /\ UNCHANGED <<pages, pointer_table, segment_pointers, codecVars,
                   cacheVars, attr_definitions, hash_to_combined_id,
                   noun_attr_bindings, page_cache>>

NextDefault == LoadAtgtdfDefault \/ ParseAtgtdfDefault

SpecDefault == InitDefault /\ [][NextDefault]_vars

\* Both parsers ran, load_atgtdf to the SEGMENT_END.
DefaultsParsed ==
    pc = "parse_attlib_complete" /\ result.parse_attlib = "returned"

\* The (hash, data_type, default_flag) of the definitions of each parser.
LoadedDefinitions ==
    {<<h, attr_definitions[h].data_type, attr_definitions[h].default_flag>> :
        h \in DOMAIN attr_definitions}
SectionDefinitions ==
    {<<h, result.attribute_definitions[h].data_type,
       result.attribute_definitions[h].default_flag>> :
        h \in DOMAIN result.attribute_definitions}

\* The records of the file whose words are its stream.
RecordsOf(pgs) ==
    {recs \in DefaultRecordLists :
        \E a \in 0..(WORDS_PER_PAGE - 1) :
            pgs = Paged(Padding(a) \o StreamOf(recs))}
\* A default of the file is a word of the hash range.
HashDefault ==
    \E recs \in RecordsOf(pages) :
        \E i \in 1..Len(recs) : recs[i][Len(recs[i])] = X

\* C34: the words consumed as a record's default value are not examined
\* again as candidate hashes: load_atgtdf and parse_atgtdf_section yield
\* the same set of definitions for the same word stream.
C34_DefaultIsNotAHash ==
    DefaultsParsed =>
        /\ X \notin DOMAIN attr_definitions
        /\ LoadedDefinitions = SectionDefinitions

\* parse_atgtdf_section starts the search for the next record after the
\* default: its definitions are those of the records.
SectionSkipsTheDefault ==
    pc = "parse_attlib_complete" =>
        \A recs \in RecordsOf(pages) :
            DOMAIN result.attribute_definitions =
                {recs[i][1] : i \in 1..Len(recs)}

\* load_atgtdf takes a default of the hash range for the hash of a record.
LoadedDefaultIsAHash ==
    (DefaultsParsed /\ HashDefault) => X \in DOMAIN attr_definitions

\* With no default of the hash range the two parsers yield the same
\* definitions.
SameWithoutHashDefault ==
    (DefaultsParsed /\ ~HashDefault) =>
        LoadedDefinitions = SectionDefinitions

\* ---------------------------------------------------------------------
\* A segment walked over the end of a page that holds no sentinel, by
\* parse_section, by parse_index_from_page and by _load_atgtix of
\* e3d_attribute_parser.py.

\* The most items of a walked stream.
MaxWalkItems == 3

\* An item of the stream: a word that is no hash, or a record [hash]
\* [combined].
WalkItems == {<<W(7)>>, <<H, W(4)>>, <<G, W(5)>>}
WalkStreams == UNION {[1..n -> WalkItems] : n \in 1..MaxWalkItems}

\* Page 0, the words of the stream from page 1 on with SEGMENT_END behind
\* them to the end of the page, and a page of SEGMENT_END.
WalkFile(s) == <<Page0>> \o Paged(StreamOf(s)) \o <<Filler>>

\* The table of a file whose segments start at data page 1, to the
\* script's own reading of a pointer word.
WalkTable(script) ==
    [i \in 1..NUM_POINTERS |->
        IF script = "parse_attlib_complete"
        THEN DATA_REGION_START + PAGE_SIZE
        ELSE IF i = 2 THEN 1 ELSE 0]

InitWalk ==
    /\ pc \in {"parse_attlib_complete", "parse_atgtix2", "e3d"}
    /\ pages \in {WalkFile(s) : s \in WalkStreams}
    /\ pointer_table = WalkTable(pc)
    /\ segment_pointers =
          IF pc = "parse_attlib_complete"
          THEN read_section_pointers(pointer_table).value
          ELSE pointer_table
    /\ result = None
    /\ CodecIdle /\ CacheIdle /\ SourceIdle

\* A walker ran: result holds what it delivered.
Walked(r) ==
    /\ history = <<>>
    /\ result' = r
    /\ history' = <<"walk">>
    /\ UNCHANGED <<pc, pages, pointer_table, segment_pointers, codecVars,
                   cacheVars, attr_definitions, noun_attr_bindings,
                   page_cache>>

\* parse_section(f, self.section_pointers[1], ...) of parse_all.
ParseSectionWalk ==
    /\ pc = "parse_attlib_complete"
    /\ Walked([status |-> "returned",
               words |-> parse_section(file_pages(pointer_table, pages),
                                       segment_pointers[2])])
    /\ UNCHANGED hash_to_combined_id

\* parse_index_from_page(pages, 1) of parse_atgtix2.py.
ParseIndexWalk ==
    /\ pc = "parse_atgtix2"
    /\ \E r \in {parse_index_from_page(pages, segment_pointers[2])} :
          Walked([status |-> r.status,
                  records |->
                     IF r.status = "returned"
                     THEN [k \in 1..Len(r.value.records) |->
                              <<r.value.records[k].hash,
                                r.value.records[k].combined>>]
                     ELSE <<>>])
    /\ UNCHANGED hash_to_combined_id

\* AttlibDataSource._load_atgtix.
LoadAtgtixWalk ==
    /\ pc = "e3d"
    /\ \E l \in {_load_atgtix(pages, segment_pointers)} :
          /\ Walked([status |-> l.status])
          /\ hash_to_combined_id' = l.hash_to_combined_id

NextWalk == ParseSectionWalk \/ ParseIndexWalk \/ LoadAtgtixWalk

SpecWalk == InitWalk /\ [][NextWalk]_vars

\* The words of the segment between its start and its SEGMENT_END.
WalkWords == SegmentWords(Flat(Tail(pages)))

RECURSIVE RecordsIn(_)
\* The records [hash][combined] of a word stream, in order.
RecordsIn(words) ==
    IF words = <<>> THEN <<>>
    ELSE IF InHashRange(Head(words)) /\ Len(words) >= 2
    THEN <<<<words[1], words[2]>>>> \o RecordsIn(Tail(Tail(words)))
    ELSE RecordsIn(Tail(words))

RECURSIVE AsDict(_)
\* The map the records fill, a later record over an earlier one.
AsDict(recs) ==
    IF recs = <<>> THEN <<>>
    ELSE DictPut(AsDict(SubSeq(recs, 1, Len(recs) - 1)),
                 recs[Len(recs)][1], recs[Len(recs)][2])

WalkReturned == history = <<"walk">> /\ result.status = "returned"

\* A page of the segment is used up with no sentinel on it.
PageWithoutSentinel == Len(WalkWords) >= WORDS_PER_PAGE

\* What a walker delivered is the words of the segment, once each and in
\* file order.
DeliveredOnce ==
    IF pc = "parse_attlib_complete" THEN result.words = WalkWords
    ELSE IF pc = "parse_atgtix2" THEN result.records = RecordsIn(WalkWords)
    ELSE hash_to_combined_id = AsDict(RecordsIn(WalkWords))

\* C32: when the words of a page are exhausted without a sentinel the
\* cursor continues at word 0 of the next page: every non-sentinel word of
\* a segment between its start and its SEGMENT_END is delivered to the
\* record parser exactly once and in file order.
C32_EveryWordOnceInOrder == WalkReturned => DeliveredOnce

\* C32 for parse_index_from_page, when it returns.
IndexWalkContinues == pc = "parse_atgtix2" => C32_EveryWordOnceInOrder

\* parse_section reads a page without a sentinel MAX_SECTION_PAGES times:
\* its words are delivered that often.
SectionRereadsThePage ==
    (WalkReturned /\ pc = "parse_attlib_complete" /\ PageWithoutSentinel) =>
        /\ Len(result.words) = MAX_SECTION_PAGES * WORDS_PER_PAGE
        /\ \A i \in 1..Len(result.words) :
              result.words[i] = pages[2][((i - 1) % WORDS_PER_PAGE) + 1]

\* The walkers deliver the words of a segment that ends within its first
\* page once and in order.
OnePageOnce ==
    (WalkReturned /\ ~PageWithoutSentinel) => DeliveredOnce

\* _load_atgtix of e3d_attribute_parser.py leaves the segment at the end of
\* a first page on which it found no record (a hash in the last word of
\* the page is none): nothing of the later pages is delivered.
E3dLeavesAfterPageWithoutRecord ==
    (WalkReturned /\ pc = "e3d"
       /\ \A i \in 1..(WORDS_PER_PAGE - 1) : ~InHashRange(pages[2][i]))
        => hash_to_combined_id = <<>>

\* ---------------------------------------------------------------------
\* The segment parsers step by step: load_atgtix and load_atgtdf of
\* parse_attlib.py, iter_atgtsx_records of parse_atgtsx_owner.py and
\* parse_index_from_page of parse_atgtix2.py.  pc holds the place in the
\* loops and the locals page_num and word_idx, result the local words.

\* The most pages of a scanned file.
MaxSegmentPages == 2

SegmentPages ==
    {<<W(7), W(7), W(7)>>, <<W(7), H, W(7)>>, <<W(7), W(7), H>>,
     <<H, W(7), PAGE_SWITCH>>, <<PAGE_SWITCH, H, H>>,
     <<W(7), SEGMENT_END, SEGMENT_END>>, <<H, W(7), SEGMENT_END>>, Filler}
SegmentFiles == UNION {[1..n -> SegmentPages] : n \in 1..MaxSegmentPages}

ScanScripts ==
    {"load_atgtix", "load_atgtdf", "iter_atgtsx_records",
     "parse_index_from_page"}

\* at is "read" before words = read_page(page_num), "scan" at the test of
\* the inner loop, "returned" or "raised" when the parse is over.
ScanFrame(script, at, page_num, word_idx) ==
    [script |-> script, at |-> at, page_num |-> page_num,
     word_idx |-> word_idx]

\* page_num = start_page (0); word_idx = 0.  parse_index_from_page is
\* handed the pages, the others read them.
InitScan ==
    /\ \E s \in ScanScripts :
          pc = ScanFrame(s, IF s = "parse_index_from_page" THEN "scan"
                            ELSE "read", 0, 0)
    /\ pages \in SegmentFiles
    /\ pointer_table = [i \in 1..NUM_POINTERS |-> 0]
    /\ segment_pointers = pointer_table
    /\ result = <<>>
    /\ CodecIdle /\ CacheIdle /\ SourceIdle

ScanUnchanged ==
    UNCHANGED <<pages, pointer_table, segment_pointers, codecVars,
                cacheVars, sourceVars>>

\* The parse goes on at the cursor cur, or ends with its exception.
ScanAt(cur) ==
    IF cur.status # "returned"
    THEN /\ pc' = ScanFrame(pc.script, "raised", pc.page_num, pc.word_idx)
         /\ UNCHANGED result
    ELSE /\ pc' = ScanFrame(pc.script, "scan", cur.page_num, cur.word_idx)
         /\ result' = cur.words

\* The parse goes to at with the locals page_num and word_idx.
ScanGoto(at, page_num, word_idx) ==
    /\ pc' = ScanFrame(pc.script, at, page_num, word_idx)
    /\ UNCHANGED result

\* while True: words = self.read_page(page_num)
ReadPage ==
    /\ pc.at = "read"
    /\ ScanAt(IF attlib_read_page(pages, <<>>, pc.page_num).read.status
                    = "returned"
              THEN Cursor(pc.page_num,
                          attlib_read_page(pages, <<>>,
                                           pc.page_num).read.value,
                          pc.word_idx)
              ELSE Raised("struct.error"))
    /\ ScanUnchanged

\* What the three loaders do alike with the word at the cursor: the inner
\* loop is left when word_idx is WORDS_PER_PAGE, for the outer loop to
\* read page_num again.
ScanSentinel(word) ==
    IF pc.word_idx >= WORDS_PER_PAGE
    THEN ScanGoto("read", pc.page_num, pc.word_idx)
    ELSE IF word = PAGE_SWITCH THEN ScanGoto("read", pc.page_num + 1, 0)
    ELSE ScanGoto("returned", pc.page_num, pc.word_idx + 1)

ScanIsSentinel ==
    \/ pc.word_idx >= WORDS_PER_PAGE
    \/ result[pc.word_idx + 1] \in {PAGE_SWITCH, SEGMENT_END}

\* The cursor one word after cur, on the next page where cur is at the end
\* of its page.
WordAfter(cur) ==
    IF cur.status # "returned" THEN cur
    ELSE next_page_if_used(
            pages, Cursor(cur.page_num, cur.words, cur.word_idx + 1))

\* One pass of the inner loop of AttlibParser.load_atgtix.
LoadAtgtixStep ==
    /\ pc.script = "load_atgtix" /\ pc.at = "scan"
    /\ IF ScanIsSentinel
       THEN ScanSentinel(IF pc.word_idx >= WORDS_PER_PAGE THEN None
                         ELSE result[pc.word_idx + 1])
       ELSE IF ~InHashRange(result[pc.word_idx + 1])
       THEN ScanGoto("scan", pc.page_num, pc.word_idx + 1)
       ELSE \E c \in {WordAfter(Cursor(pc.page_num, result, pc.word_idx))} :
               ScanAt(IF c.status # "returned" THEN c
                      ELSE Cursor(c.page_num, c.words, c.word_idx + 1))
    /\ ScanUnchanged

\* One pass of the inner loop of AttlibParser.load_atgtdf: the cursor
\* stays after default_flag.
LoadAtgtdfStep ==
    /\ pc.script = "load_atgtdf" /\ pc.at = "scan"
    /\ IF ScanIsSentinel
       THEN ScanSentinel(IF pc.word_idx >= WORDS_PER_PAGE THEN None
                         ELSE result[pc.word_idx + 1])
       ELSE IF ~InHashRange(result[pc.word_idx + 1])
       THEN ScanGoto("scan", pc.page_num, pc.word_idx + 1)
       ELSE \E a \in {WordAfter(Cursor(pc.page_num, result, pc.word_idx))} :
            \E b \in {WordAfter(a)} :
               ScanAt(IF b.status # "returned" THEN b
                      ELSE IF _read_default_value(
                                 pages,
                                 Cursor(b.page_num, b.words, b.word_idx + 1),
                                 a.words[a.word_idx + 1],
                                 b.words[b.word_idx + 1]).status
                                 # "returned"
                      THEN Raised("struct.error")
                      ELSE Cursor(b.page_num, b.words, b.word_idx + 1))
    /\ ScanUnchanged

\* One pass of the inner loop of iter_atgtsx_records: every word that is no
\* sentinel is a pack_code, index_ptr and third_value follow it.
IterAtgtsxStep ==
    /\ pc.script = "iter_atgtsx_records" /\ pc.at = "scan"
    /\ IF ScanIsSentinel
       THEN ScanSentinel(IF pc.word_idx >= WORDS_PER_PAGE THEN None
                         ELSE result[pc.word_idx + 1])
       ELSE \E a \in {WordAfter(Cursor(pc.page_num, result, pc.word_idx))} :
            \E b \in {WordAfter(a)} :
               ScanAt(IF b.status # "returned" THEN b
                      ELSE Cursor(b.page_num, b.words, b.word_idx + 1))
    /\ ScanUnchanged

\* One pass of the while True loop of parse_index_from_page.
ParseIndexStep ==
    /\ pc.script = "parse_index_from_page" /\ pc.at = "scan"
    /\ IF pc.page_num >= Len(pages)
       THEN ScanGoto("returned", pc.page_num, pc.word_idx)
       ELSE IF pc.word_idx >= WORDS_PER_PAGE
       THEN ScanGoto("scan", pc.page_num + 1, 0)
       ELSE \E word \in {pages[pc.page_num + 1][pc.word_idx + 1]} :
               IF word = PAGE_SWITCH
               THEN ScanGoto("scan", pc.page_num + 1, 0)
               ELSE IF word = SEGMENT_END
               THEN ScanGoto("returned", pc.page_num, pc.word_idx + 1)
               ELSE IF ~InHashRange(word)
               THEN ScanGoto("scan", pc.page_num, pc.word_idx + 1)
               ELSE IF pc.word_idx + 1 >= Len(pages[pc.page_num + 1])
               THEN ScanGoto("raised", pc.page_num, pc.word_idx + 1)
               ELSE ScanGoto("scan", pc.page_num, pc.word_idx + 2)
    /\ ScanUnchanged

NextScan ==
    \/ ReadPage
    \/ LoadAtgtixStep
    \/ LoadAtgtdfStep
    \/ IterAtgtsxStep
    \/ ParseIndexStep

SpecScan == InitScan /\ [][NextScan]_vars

\* The parse runs while it can: nothing else holds it up.
SpecScanFair == SpecScan /\ WF_vars(NextScan)

\* The parse is over: it returned, or an exception ended it.
ScanOver == pc.at \in {"returned", "raised"}

\* C33: on every finite file each segment parse (load_atgtix, load_atgtdf,
\* iter_atgtsx_records, parse_index_from_page) eventually terminates,
\* including when a page of the segment contains neither PAGE_SWITCH nor
\* SEGMENT_END.
C33_EveryParseTerminates == <>ScanOver

\* C33 for parse_index_from_page.
ParseIndexTerminates == <>(pc.script = "parse_index_from_page" => ScanOver)

\* The page is used up: word_idx is WORDS_PER_PAGE at the test of the inner
\* loop of one of the three loaders.
PageUsedUp ==
    /\ pc.script # "parse_index_from_page"
    /\ pc.at = "scan" /\ pc.word_idx >= WORDS_PER_PAGE

\* Once a page is used up the three loaders read it again and again:
\* page_num and word_idx stay as they are and the parse is never over.
UsedUpPageIsReadForEver ==
    [][(PageUsedUp \/ (pc.at = "read" /\ pc.word_idx >= WORDS_PER_PAGE))
          => /\ pc'.page_num = pc.page_num /\ pc'.word_idx = pc.word_idx
             /\ pc'.at \in {"read", "scan"}]_vars

====
